---- MODULE Spec2Model ----
(***************************************************************************)
(* A model of the evolution-strategies generation loop of                  *)
(* src/es/legacy/train.py (train_loop and the numerical helpers it calls)  *)
(* together with the checkpoint files of src/es/utils.py.                  *)
(*                                                                         *)
(* Numbers are fixed point integers:                                       *)
(*   noise (eps)        in units of 1/EpsUnit                              *)
(*   sigma              in units of 1e-6                                   *)
(*   policy parameters  in units of 1e-6/EpsUnit (sigma unit * eps unit)   *)
(*   sensitivities      in units of 1/SensUnit                             *)
(*   log utilities      in units of 1/1000                                 *)
(*   returns            in units of 1000                                   *)
(* A policy has NumTensors parameter tensors of TensorSize elements each;   *)
(* the last tensor may also be one of a single element.                    *)
(***************************************************************************)
EXTENDS Integers, Sequences, FiniteSets, TLC

\* ------------------------------------------------------------------------
\* Bounds of the model
\* ------------------------------------------------------------------------

\* np.random.randint(2**30) is drawn from 0..SeedSpace-1
SeedSpace == 2
\* a worker reports a return in 0..MaxReturn
MaxReturn == 1
\* the loop runs at most MaxRun generations (args.max_generations - start)
MaxRun == 2
\* agent counts are the even numbers in 2..MaxAgents
MaxAgents == 2
\* processes of one generation that die without a result, in the loop over
\* the generations
MaxCrashes == 1
\* the agent counts of a run of one generation: the even numbers in
\* 2..MaxAgentsOnce
MaxAgentsOnce == 4
\* the clock advances by at most MaxTick between two readings
MaxTick == 1
\* an evaluation reports 1..MaxObs observations
MaxObs == 1
\* fitness_shaping on its own is applied to arrays of 2..MaxLen returns
MaxLen == 5
\* the longest episode of the environment of episodes
MaxSteps == 2
\* with entries in 0..MaxShaped
MaxShaped == 2

\* ------------------------------------------------------------------------
\* Program constants and the shape of the policy
\* ------------------------------------------------------------------------

\* the reserved marker 'dummy_seed' of the unperturbed evaluation, encoded
\* as an integer no random seed can take
DummySeed == -1
\* checkpoint_interval (seconds; the default is 60), in clock ticks
CheckpointInterval == 1
\* max_unperturbed_return = -1e8 of a fresh run, in the unit of the returns
MinusInfReturn == -100000
NumTensors == 2
TensorSize == 2
EpsUnit == 10
SensUnit == 100
\* the float inf, as an integer above every finite number of the model
Inf == 100000000
\* a beta so low that args.beta.exp() is 0.0 in single precision, as the
\* sigma it stands for
ExpUnderflow == 0

\* ------------------------------------------------------------------------
\* Arithmetic helpers
\* ------------------------------------------------------------------------

Abs(x) == IF x < 0 THEN -x ELSE x

\* division truncating toward zero, as fixed point rounding
TruncDiv(a, b) ==
    IF a >= 0 THEN a \div b ELSE -((-a) \div b)

RECURSIVE SeqSum(_)
SeqSum(s) ==
    IF s = <<>> THEN 0 ELSE Head(s) + SeqSum(Tail(s))

\* the integer square root, by bisection between lo and hi
RECURSIVE ISqrtBetween(_, _, _)
ISqrtBetween(n, lo, hi) ==
    IF lo >= hi THEN lo
    ELSE CHOOSE r \in {IF mid * mid <= n THEN ISqrtBetween(n, mid, hi)
                        ELSE ISqrtBetween(n, lo, mid - 1) :
                           mid \in {(lo + hi + 1) \div 2}} : TRUE

ISqrt(n) == ISqrtBetween(n, 0, IF n < 46340 THEN n ELSE 46340)

SeqMax(s) == CHOOSE m \in {s[i] : i \in DOMAIN s} : \A i \in DOMAIN s : s[i] <= m

SeqMin(s) == CHOOSE m \in {s[i] : i \in DOMAIN s} : \A i \in DOMAIN s : m <= s[i]

\* list.pop(index) with a 1-based index: the list without that entry
PopAt(s, k) == [i \in 1..(Len(s) - 1) |-> IF i < k THEN s[i] ELSE s[i + 1]]

\* list.index(x): the first position holding x, 0 when there is none
\* (Python raises ValueError)
IndexOf(s, x) ==
    IF \E i \in DOMAIN s : s[i] = x
    THEN CHOOSE i \in DOMAIN s : s[i] = x /\ \A j \in 1..(i - 1) : s[j] # x
    ELSE 0

\* ------------------------------------------------------------------------
\* Random number generators
\* ------------------------------------------------------------------------

\* The samples eps.normal_(0,1) draws after torch.manual_seed(seed) /
\* torch.cuda.manual_seed(seed): the pos-th sample of the generator of the
\* given device.  The CPU and the CUDA generator are two generators, seeded
\* separately; each is a fixed pseudo random stream of its seed.
NormalTable == <<-15, 9, 4, -7, -3, 12, 6, 1>>

normal_(is_cuda, seed, pos) ==
    NormalTable[((seed * 5 + pos * 3 + (IF is_cuda THEN 1 ELSE 0)) % 8) + 1]

\* One tensor of n samples; the generator moves on by n.
Draw(is_cuda, rng, n) ==
    [j \in 1..n |-> normal_(is_cuda, rng.seed, rng.pos + j)]

Advance(rng, n) == [rng EXCEPT !.pos = @ + n]

\* torch.manual_seed(seed); torch.cuda.manual_seed(seed)
manual_seed(seed) == [seed |-> seed, pos |-> 0]

\* eps.std(): the sample standard deviation of two or more elements, times
\* 100 (0 when all are equal)
Std100(t) ==
    LET n == Len(t)
        s == SeqSum(t)
        dev == SeqSum([j \in 1..n |-> (n * t[j] - s) * (n * t[j] - s)])
    IN ISqrt((10000 * dev) \div (n * n * (n - 1)))

\* ------------------------------------------------------------------------
\* get_pertubation: the noise of one parameter tensor.  param is
\* [data, grad, is_cuda]; the result is the noise and whether every element
\* of it is finite (a division by zero gives inf or nan).
\* ------------------------------------------------------------------------
get_pertubation(args, param, rng) ==
    LET eps == Draw(param.is_cuda, rng, Len(param.data))
    IN IF ~args.safe_mutation
       THEN [eps |-> eps, finite |-> TRUE]
       ELSE IF \E j \in DOMAIN eps : param.grad[j] = 0
       THEN [eps |-> eps, finite |-> FALSE]
       \* the deviation of a single element is 0/0
       ELSE IF Len(eps) = 1
       THEN [eps |-> eps, finite |-> FALSE]
       ELSE LET scaled == [j \in DOMAIN eps |->
                              TruncDiv(eps[j] * SensUnit, param.grad[j])]
                sd == Std100(scaled)
            IN IF sd = 0
               THEN [eps |-> scaled, finite |-> FALSE]
               ELSE [eps |-> [j \in DOMAIN eps |->
                                 TruncDiv(scaled[j] * 100 * EpsUnit, sd)],
                     finite |-> TRUE]

\* The parameter tensor `layer` of a model.
ParamOf(model, layer) ==
    [data |-> model.data[layer], grad |-> model.grad[layer], is_cuda |-> model.is_cuda]

\* The noise of every tensor, drawn in the order of the tensors from one
\* seeding of the generator.
RECURSIVE NoiseFrom(_, _, _, _)
NoiseFrom(args, model, rng, layer) ==
    IF layer > Len(model.data) THEN <<>>
    ELSE <<get_pertubation(args, ParamOf(model, layer), rng)>>
         \o NoiseFrom(args, model, Advance(rng, Len(model.data[layer])), layer + 1)

\* ------------------------------------------------------------------------
\* perturb_model: two copies of the parent, perturbed by +sigma*eps and
\* -sigma*eps.  ok is FALSE when one of the four assertions on
\* nan and inf fails.  The field eps of each copy records the noise it was
\* built with.
\* ------------------------------------------------------------------------
\* The second model perturbed like the first one (param2.data += ...)
Model2Plus(parent_model, sigma, noise) ==
    [layer \in DOMAIN parent_model.data |-> [j \in DOMAIN parent_model.data[layer] |->
        parent_model.data[layer][j] + sigma * noise[layer].eps[j]]]

Model2Minus(parent_model, sigma, noise) ==
    [layer \in DOMAIN parent_model.data |-> [j \in DOMAIN parent_model.data[layer] |->
        parent_model.data[layer][j] - sigma * noise[layer].eps[j]]]

perturb_model(args, parent_model, random_seed) ==
    LET noise == NoiseFrom(args, parent_model, manual_seed(random_seed), 1)
        eps   == [layer \in DOMAIN parent_model.data |-> noise[layer].eps]
        data1 == [layer \in DOMAIN parent_model.data |-> [j \in DOMAIN parent_model.data[layer] |->
                    parent_model.data[layer][j] + args.sigma * noise[layer].eps[j]]]
        data2 == Model2Minus(parent_model, args.sigma, noise)
    IN [ok     |-> \A layer \in DOMAIN parent_model.data : noise[layer].finite,
        models |-> << [data |-> data1, eps |-> eps],
                      [data |-> data2, eps |-> eps] >>]

\* ------------------------------------------------------------------------
\* compute_sensitivities
\* ------------------------------------------------------------------------

\* The root of the summed squared output gradients of every parameter
\* element for an input batch (lines 124-144).  The forward and backward
\* pass belong to the policy; the model takes their result from the kind of
\* the batch.  A batch of kind 2 leaves the first tensor without any effect
\* on the outputs.
RawSens(parent_model, inputs) ==
    [layer \in DOMAIN parent_model.data |-> [j \in DOMAIN parent_model.data[layer] |->
        IF inputs.kind = 2 /\ layer = 1 THEN 0
        ELSE IF layer = Len(parent_model.data) /\ j = TensorSize THEN 0
        ELSE 2 + ((layer * j) % 3) * 3]]

\* sens / sens.max(), then < 1e-5 -> 1 and > 1e5 -> 1e5.  With a maximum of
\* zero every element is 0/0 = nan, which neither comparison replaces.
NormalizeTensor(raw) ==
    LET m == SeqMax(raw)
    IN IF m = 0
       THEN [finite |-> FALSE, sens |-> raw]
       ELSE [finite |-> TRUE,
             sens |-> [j \in DOMAIN raw |->
                 LET v == (raw[j] * SensUnit) \div m
                 IN IF v * 100000 < SensUnit THEN SensUnit
                    ELSE IF v > 100000 * SensUnit THEN 100000 * SensUnit
                    ELSE v]]

\* The sensitivities become param.grad of the parent; ok is FALSE when an
\* assertion on nan or inf fails (lines 163-164).
compute_sensitivities(args, parent_model, inputs) ==
    LET raw == RawSens(parent_model, inputs)
        nt  == [layer \in DOMAIN raw |-> NormalizeTensor(raw[layer])]
    IN [ok   |-> \A layer \in DOMAIN raw : nt[layer].finite,
        grad |-> [layer \in DOMAIN raw |-> nt[layer].sens]]

\* ------------------------------------------------------------------------
\* fitness_shaping
\* ------------------------------------------------------------------------

\* 1000 * ln(x2 / 2), for the arguments n/2+1 and k+1 doubled
LogMilli2 == <<0, 0, 405, 693, 916, 1099, 1253, 1386, 1504, 1609, 1705, 1792,
               1872, 1946, 2015, 2079>>

\* The place k (from 0) of entry i in np.argsort(-returns); equal returns
\* keep the order of their indices (arrays this short are insertion sorted).
RankOf(returns, i) ==
    Cardinality({j \in DOMAIN returns : returns[j] > returns[i]})
    + Cardinality({j \in 1..(i - 1) : returns[j] = returns[i]})

\* u: the utility max(0, log(n/2+1) - log(k+1)) of every entry
Utilities(returns) ==
    LET n == Len(returns)
    IN [i \in 1..n |->
          LET d == LogMilli2[n + 2] - LogMilli2[2 * RankOf(returns, i) + 2]
          IN IF d > 0 THEN d ELSE 0]

\* u/np.sum(u), without the subtraction of 1/n
fitness_shaping_uncentred(returns) ==
    LET n == Len(returns)
        u == Utilities(returns)
    IN [i \in 1..n |-> n * u[i]]

\* u/np.sum(u) - 1/n as numerators over the common denominator n*sum(u)
fitness_shaping(returns) ==
    LET n == Len(returns)
        u == Utilities(returns)
        S == SeqSum(u)
    IN [i \in 1..n |-> n * u[i] - S]

\* ------------------------------------------------------------------------
\* compute_gradients
\* ------------------------------------------------------------------------

\* Python's truth value of an is_anti entry ("True", "False", 'dummy_neg')
Truthy(x) == x # "False"

\* The noise result i was evaluated with, regenerated from its seed
\* (lines 194-197).
RegeneratedNoise(args, parent_model, seed) ==
    NoiseFrom(args, parent_model, manual_seed(seed), 1)

\* sum over the results 1..k of retrn * multiplier * eps for one element
RECURSIVE WeightedNoise(_, _, _, _, _, _, _, _)
WeightedNoise(args, parent_model, shaped, seeds, is_anti_list, layer, j, k) ==
    IF k = 0 THEN 0
    ELSE WeightedNoise(args, parent_model, shaped, seeds, is_anti_list, layer, j, k - 1)
         + shaped[k] * (IF Truthy(is_anti_list[k]) THEN -1 ELSE 1)
           * RegeneratedNoise(args, parent_model, seeds[k])[layer].eps[j]

\* param.grad = - weight_gradients over the results 1..count.  The positive
\* factor 1/(agents * sigma**2) and the denominator of the shaped returns
\* are left to the step size of the optimizer.
GradientOver(args, parent_model, returns, seeds, is_anti_list, count) ==
    LET shaped == fitness_shaping(returns)
    IN [layer \in DOMAIN parent_model.data |-> [j \in DOMAIN parent_model.data[layer] |->
          - WeightedNoise(args, parent_model, shaped, seeds, is_anti_list,
                          layer, j, count)]]

\* eps.pow(2).sum() - 1 over the tensors of one regenerated noise, in units
\* of 1/EpsUnit^2
SquaredNoise(noise) ==
    SeqSum([layer \in DOMAIN noise |->
               SeqSum([j \in DOMAIN noise[layer].eps |->
                          noise[layer].eps[j] * noise[layer].eps[j]])
               - EpsUnit * EpsUnit])

\* Line 200: beta_gradient over the results 1..k, up to the positive factor
\* 1/(agents * exp(beta)) and the denominator of the shaped returns.
RECURSIVE BetaGradientOver(_, _, _, _, _)
BetaGradientOver(args, parent_model, shaped, seeds, k) ==
    IF k = 0 THEN 0
    ELSE BetaGradientOver(args, parent_model, shaped, seeds, k - 1)
         + shaped[k] * SquaredNoise(RegeneratedNoise(args, parent_model, seeds[k]))

Sign(x) == IF x > 0 THEN 1 ELSE IF x < 0 THEN -1 ELSE 0

\* Line 200 when args.beta.exp() is 0.0: the factor 1/(agents * 0.0) is inf
\* and every term is inf * retrn * (eps.pow(2).sum() - 1), one for every
\* result and parameter tensor; these are the signs of the terms.
InfiniteTerms(args, parent_model, shaped, seeds) ==
    {Sign(shaped[k]
          * (SeqSum([j \in DOMAIN parent_model.data[layer] |->
                LET e == RegeneratedNoise(args, parent_model, seeds[k])[layer].eps[j]
                IN e * e]) - EpsUnit * EpsUnit)) :
        k \in 1..args.agents, layer \in DOMAIN parent_model.data}

\* The sum of terms that are inf, -inf (inf times a finite number) or nan
\* (inf times zero): [nan, value].
InfiniteSum(signs) ==
    IF 0 \in signs \/ {1, -1} \subseteq signs
    THEN [nan |-> TRUE, value |-> 0]
    ELSE [nan |-> FALSE, value |-> IF 1 \in signs THEN Inf ELSE -Inf]

\* beta_gradient after the loop of lines 189-200
beta_gradient(args, parent_model, shaped, seeds) ==
    IF args.beta = ExpUnderflow
    THEN InfiniteSum(InfiniteTerms(args, parent_model, shaped, seeds))
    ELSE [nan |-> FALSE,
          value |-> BetaGradientOver(args, parent_model, shaped, seeds, args.agents)]

\* compute_gradients without its two assertions on the lengths, summing over
\* the results there are
compute_gradients_of_present(args, parent_model, returns, random_seeds, is_anti_list) ==
    [ok |-> TRUE, error |-> "",
     grad |-> GradientOver(args, parent_model, returns, random_seeds,
                           is_anti_list, Len(returns)),
     beta_grad |-> args.beta_grad]

\* ok is FALSE when an assertion of compute_gradients fails: the two on the
\* lengths (lines 175-176), those on nan and inf in the gradient of the
\* parameters (lines 207-208) or the one on nan in the gradient of beta
\* (line 214).
compute_gradients(args, parent_model, returns, random_seeds, is_anti_list) ==
    IF Len(returns) # args.agents \/ Len(random_seeds) # Len(returns)
    THEN [ok |-> FALSE, error |-> "AssertionError: batch_size",
          grad |-> parent_model.grad, beta_grad |-> args.beta_grad]
    ELSE IF args.sigma = 0
            \/ \E i \in 1..args.agents : \E layer \in DOMAIN parent_model.data :
                   ~RegeneratedNoise(args, parent_model, random_seeds[i])[layer].finite
    THEN [ok |-> FALSE, error |-> "AssertionError: nan or inf",
          grad |-> parent_model.grad, beta_grad |-> args.beta_grad]
    ELSE LET grad == GradientOver(args, parent_model, returns, random_seeds,
                                  is_anti_list, args.agents)
             bg   == beta_gradient(args, parent_model, fitness_shaping(returns),
                                   random_seeds)
         IN IF args.optimize_sigma /\ bg.nan
            THEN [ok |-> FALSE, error |-> "AssertionError: nan in beta.grad",
                  grad |-> grad, beta_grad |-> args.beta_grad]
            ELSE [ok |-> TRUE, error |-> "", grad |-> grad,
                  \* lines 209-211: args.beta.grad = - beta_gradient
                  beta_grad |-> IF args.optimize_sigma THEN - bg.value
                                ELSE args.beta_grad]

\* ------------------------------------------------------------------------
\* Statistics, state dicts and checkpoint files
\* ------------------------------------------------------------------------

StatKeys == {"generations", "episodes", "observations", "walltimes",
             "return_avg", "return_var", "return_max", "return_min",
             "return_unp", "unp_rank", "sigma", "lr"}

\* stats of a fresh run: every list empty (lines 231-242)
EmptyStats(start_time) ==
    [generations |-> <<>>, episodes |-> <<>>, observations |-> <<>>,
     walltimes |-> <<>>, return_avg |-> <<>>, return_var |-> <<>>,
     return_max |-> <<>>, return_min |-> <<>>, return_unp |-> <<>>,
     unp_rank |-> <<>>, sigma |-> <<>>, lr |-> <<>>, start_time |-> start_time]

\* returns.mean() and returns.var(), times 1000
Mean1000(returns) == TruncDiv(SeqSum(returns) * 1000, Len(returns))

Var1000(returns) ==
    LET n == Len(returns)
        s == SeqSum(returns)
    IN (SeqSum([i \in 1..n |-> (n * returns[i] - s) * (n * returns[i] - s)]) * 1000)
       \div (n * n * n)

\* unperturbed_rank: nth_place
unperturbed_rank(returns, unperturbed_return) ==
    Cardinality({i \in DOMAIN returns : returns[i] > unperturbed_return}) + 1

\* Python's None
None == [none |-> TRUE]

\* parent_model.state_dict(): the parameter tensors themselves, not copies.
\* storage names the tensors the dict refers to; data is what they held when
\* the dict was taken.
ModelStateDict(parent_model) ==
    [none |-> FALSE, storage |-> parent_model.storage, data |-> parent_model.data]

\* optimizer.state_dict(): the per-parameter state by reference, the
\* parameter groups (the learning rate) by value.
OptimizerStateDict(optimizer) ==
    [none |-> FALSE, steps |-> optimizer.steps, lr |-> optimizer.lr]

\* What torch.save writes for a model state dict: the present content of the
\* tensors it refers to.
SavedModel(stdct, parent_model) ==
    IF stdct.none THEN None
    ELSE IF stdct.storage = parent_model.storage
    THEN [none |-> FALSE, data |-> parent_model.data]
    ELSE [none |-> FALSE, data |-> stdct.data]

SavedOptimizer(stdct, optimizer) ==
    IF stdct.none THEN None
    ELSE [none |-> FALSE, steps |-> optimizer.steps, lr |-> stdct.lr]

\* save_checkpoint: the five files of the checkpoint directory
save_checkpoint(parent_model, optimizer, best_model_stdct, best_optimizer_stdct, stats) ==
    [exists         |-> TRUE,
     model          |-> SavedModel(ModelStateDict(parent_model), parent_model),
     optimizer      |-> SavedOptimizer(OptimizerStateDict(optimizer), optimizer),
     best_model     |-> SavedModel(best_model_stdct, parent_model),
     best_optimizer |-> SavedOptimizer(best_optimizer_stdct, optimizer),
     stats          |-> stats]

NoCheckpoint ==
    [exists |-> FALSE, model |-> None, optimizer |-> None, best_model |-> None,
     best_optimizer |-> None, stats |-> EmptyStats(0)]

\* ------------------------------------------------------------------------
\* The state of train_loop
\* ------------------------------------------------------------------------

VARIABLES
    args,                   \* agents, sigma, max_generations, cuda, safe_mutation,
                            \* optimize_sigma, beta
    parent_model,           \* data, grad, the device (is_cuda) and the tensors' storage
    optimizer,              \* steps taken (its per-parameter state) and lr
    stats,
    n_episodes,
    n_observations,
    max_unperturbed_return,
    best_model_stdct,
    best_optimizer_stdct,
    unperturbed_out,
    n_generation,
    seeds,
    models,
    is_negative,
    processes,              \* the list of started processes, by worker number
    workers,                \* every process started in this generation
    return_queue,
    raw_output,
    returns,
    is_anti_list,
    i_observations,
    now,                    \* the clock time.time() reads
    last_checkpoint_time,
    disk,                   \* the files of args.chkpt_dir
    pc,                     \* where train_loop is
    j_pair,                 \* j of the loop of line 275
    poll,                   \* the list comprehension of line 308: next index, result so far
    error,                  \* the exception that ended the loop, "" when none
    resumed,                \* the checkpoint the run was restored from (exists = FALSE: fresh)
    gen_disk,               \* the files as they were when the generation began
    env,                    \* the environment the policies are evaluated in
    shaped_returns,         \* the local of compute_gradients (line 179)
    new_sigma,              \* the local of line 345
    restore                 \* the restore asked for at the start, and whether it failed

vars == <<args, parent_model, optimizer, stats, n_episodes, n_observations,
          max_unperturbed_return, best_model_stdct, best_optimizer_stdct,
          unperturbed_out, n_generation, seeds, models, is_negative, processes,
          workers, return_queue, raw_output, returns, is_anti_list,
          i_observations, now, last_checkpoint_time, disk, pc, j_pair, poll,
          error, resumed, gen_disk, env, shaped_returns, new_sigma, restore>>

\* the variables of one generation's dispatch and collection
locals == <<seeds, models, is_negative, processes, workers, return_queue,
            raw_output, returns, is_anti_list, i_observations, j_pair, poll>>

\* the training state that lasts from one generation to the next
training == <<args, parent_model, optimizer, stats, n_episodes, n_observations,
              max_unperturbed_return, best_model_stdct, best_optimizer_stdct>>

AgentCounts == {n \in 2..MaxAgents : n % 2 = 0}
Seeds == 0..(SeedSpace - 1)
Returns == 0..MaxReturn
ObsCounts == 1..MaxObs
BatchKinds == {1, 2}

NoInputs == [id |-> 0, kind |-> 0]

\* The environments: one of rewards, whose returns are 0..MaxReturn, one of
\* costs, whose returns all lie below -1e8, and for a policy of one
\* parameter one whose return is -(param - target)^2.
Rewards == [kind |-> "rewards"]
Costs == [kind |-> "costs"]
Quadratic(target) == [kind |-> "quadratic", target |-> target]
Episodes == [kind |-> "episodes"]

\* The distance of a parameter to the target is counted in steps of 0.1
\* times the sigma of the command line, the least distance two perturbed
\* parameters of a fresh run can have.
QuadUnit == 50000

\* The returns an evaluation of a model in the environment may report.
ReturnsOf(e, model) ==
    IF e.kind = "costs" THEN {MinusInfReturn - 1 - r : r \in Returns}
    ELSE IF e.kind = "quadratic"
    THEN LET d == (model.data[1][1] - e.target) \div QuadUnit IN {- (d * d)}
    ELSE IF e.kind = "episodes" THEN {0}
    ELSE Returns

\* The numbers of observations an evaluation may report: in the
\* environment of episodes an episode lasts 1..MaxSteps steps and has the
\* return 0.
ObservationsOf(e) == IF e.kind = "episodes" THEN 1..MaxSteps ELSE ObsCounts

\* The result dict an evaluation puts on the return queue: the seed and the
\* sign it was handed, the return and the number of observations of the
\* evaluation, and with collect_inputs the input batch it saw.
eval_fun(seed, is_neg, ret, nobs, inputs) ==
    [seed |-> seed, return |-> ret, is_anti |-> is_neg, n_observations |-> nobs,
     inputs |-> inputs]

\* The numbers of elements of the tensors of a policy: TensorSize each, or
\* a last tensor of one element (the bias of a single output unit).
Shape(single) ==
    [layer \in 1..NumTensors |->
        IF single /\ layer = NumTensors THEN 1 ELSE TensorSize]

\* A policy of one parameter.
OneParameter == <<1>>

\* The policy a fresh run starts from.
InitialData(shape) ==
    [layer \in DOMAIN shape |-> [j \in 1..shape[layer] |-> 1000000 * (layer + j)]]

NoGrad(shape) == [layer \in DOMAIN shape |-> [j \in 1..shape[layer] |-> 0]]

\* A checkpoint written at the end of generation g by an earlier run with
\* the given number of agents and sigma 0.07; its best generation was the
\* first one.
EarlierCheckpoint(g, agents, shape) ==
    [exists         |-> TRUE,
     model          |-> [none |-> FALSE,
                         data |-> [layer \in DOMAIN shape |-> [j \in 1..shape[layer] |->
                                     InitialData(shape)[layer][j] + 250000 * g]]],
     optimizer      |-> [none |-> FALSE, steps |-> g + 1, lr |-> 10],
     best_model     |-> [none |-> FALSE, data |-> InitialData(shape)],
     best_optimizer |-> [none |-> FALSE, steps |-> 1, lr |-> 10],
     stats          |->
        [generations  |-> [i \in 1..(g + 1) |-> i - 1],
         episodes     |-> [i \in 1..(g + 1) |-> agents * i],
         observations |-> [i \in 1..(g + 1) |-> agents * i],
         walltimes    |-> [i \in 1..(g + 1) |-> i],
         return_avg   |-> [i \in 1..(g + 1) |-> 0],
         return_var   |-> [i \in 1..(g + 1) |-> 0],
         return_max   |-> [i \in 1..(g + 1) |-> 0],
         return_min   |-> [i \in 1..(g + 1) |-> 0],
         return_unp   |-> [i \in 1..(g + 1) |-> IF i = 1 THEN MaxReturn ELSE 0],
         unp_rank     |-> [i \in 1..(g + 1) |-> 1],
         sigma        |-> [i \in 1..(g + 1) |-> 7 * 10000],
         lr           |-> [i \in 1..(g + 1) |-> 10],
         start_time   |-> 0]]

\* the generations a run may be resumed after
ResumePoints == {10}

\* Lines 246-250: what a resumed run takes from the restored statistics.
Last(s) == s[Len(s)]

\* the index of the last recorded generation once more
restart_generation(st) == Last(st.generations)

start_generation(st) == Last(st.generations) + 1

\* args.sigma left at the default of the command line (0.05)
command_line_sigma(st) == 5 * 10000

restored_sigma(st) == Last(st.sigma)

restored_max_return(st) == SeqMax(st.return_unp)

\* The state after lines 229-255, fresh (stats is None) or resumed, but for
\* the returns and the place in the program.
InitRun(agents, cuda, safe, opt_sigma, shape, chk, run, e, beta) ==
    /\ resumed = chk
    /\ env = e
    /\ shaped_returns = <<>>
    /\ new_sigma = 0
    /\ disk = chk
    /\ gen_disk = chk
    /\ now = 0
    /\ last_checkpoint_time = 0
    /\ stats = IF chk.exists THEN chk.stats ELSE EmptyStats(0)
    /\ n_episodes = IF chk.exists THEN Last(chk.stats.episodes) ELSE 0
    /\ n_observations = IF chk.exists THEN Last(chk.stats.observations) ELSE 0
    /\ n_generation = IF chk.exists THEN start_generation(chk.stats) ELSE 0
    /\ max_unperturbed_return =
          IF chk.exists THEN restored_max_return(chk.stats) ELSE MinusInfReturn
    /\ args = [agents |-> agents,
               sigma |-> IF chk.exists THEN restored_sigma(chk.stats) ELSE 5 * 10000,
               max_generations |->
                   (IF chk.exists THEN start_generation(chk.stats) ELSE 0) + run,
               cuda |-> cuda, safe_mutation |-> safe, optimize_sigma |-> opt_sigma,
               beta |-> beta, beta_grad |-> 0]
    /\ parent_model = [data |-> IF chk.exists THEN chk.model.data ELSE InitialData(shape),
                       grad |-> NoGrad(shape), storage |-> 0, is_cuda |-> FALSE]
    /\ optimizer = IF chk.exists THEN [steps |-> chk.optimizer.steps, lr |-> chk.optimizer.lr]
                   ELSE [steps |-> 0, lr |-> 10]
    /\ best_model_stdct = None
    /\ best_optimizer_stdct = None
    /\ unperturbed_out = eval_fun(DummySeed, "dummy_neg", 0, 1, NoInputs)
    /\ seeds = <<>> /\ models = <<>> /\ is_negative = "True"
    /\ processes = <<>> /\ workers = <<>>
    /\ return_queue = <<>> /\ raw_output = <<>>
    /\ is_anti_list = <<>> /\ i_observations = <<>>
    /\ j_pair = 0 /\ poll = [i |-> 0, alive |-> <<>>]
    /\ error = ""

\* train_loop called without a restore before it
NoRestore == [by |-> "none", bad |-> {}, failed |-> FALSE, files |-> NoCheckpoint]

\* The state after lines 229-255.
InitTraining(agents, cuda, safe, opt_sigma, shape, chk, run, e, beta) ==
    /\ InitRun(agents, cuda, safe, opt_sigma, shape, chk, run, e, beta)
    /\ returns = <<>>
    /\ restore = NoRestore
    /\ pc = "evaluate_parent"

\* Without safe mutation nothing depends on the numbers of elements, and
\* the policies are those with tensors of TensorSize elements.
Init ==
    \E agents \in AgentCounts, cuda \in BOOLEAN, safe \in BOOLEAN,
       opt_sigma \in BOOLEAN, run \in {0, MaxRun} :
       \E shape \in {Shape(single) : single \in {FALSE, safe}} :
          \/ InitTraining(agents, cuda, safe, opt_sigma, shape, NoCheckpoint, run,
                          Rewards, 5 * 10000)
          \/ \E g \in ResumePoints :
             \E beta \in {5 * 10000} \cup (IF opt_sigma THEN {ExpUnderflow} ELSE {}) :
                InitTraining(agents, cuda, safe, opt_sigma, shape,
                             EarlierCheckpoint(g, agents, shape), run,
                             Rewards, beta)

\* One generation of a fresh run, for the interleavings of its processes.
InitConcurrent ==
    \E agents \in AgentCounts :
       InitTraining(agents, FALSE, FALSE, FALSE, Shape(FALSE), NoCheckpoint, 1,
                    Rewards, 5 * 10000)

\* One generation with more agents: of a fresh run that adapts sigma in the
\* environment of rewards, of a fresh run with a fixed sigma in the
\* environment of costs, or of a resumed run that adapts sigma.
InitGeneration ==
    \E agents \in {n \in 2..MaxAgentsOnce : n % 2 = 0} :
       \/ \E e \in {Rewards, Costs} :
             InitTraining(agents, FALSE, FALSE, e = Rewards, Shape(FALSE), NoCheckpoint,
                          1, e, 5 * 10000)
       \/ \E g \in ResumePoints, beta \in {5 * 10000, ExpUnderflow} :
             InitTraining(agents, FALSE, FALSE, TRUE, Shape(FALSE),
                          EarlierCheckpoint(g, agents, Shape(FALSE)), 1, Rewards, beta)

\* ------------------------------------------------------------------------
\* train_loop, step by step
\* ------------------------------------------------------------------------

\* An exception leaves train_loop: nothing after the failing statement runs.
Raise(msg) ==
    /\ pc' = "aborted"
    /\ error' = msg

\* Lines 258-259: the parent is evaluated in the coordinator itself and its
\* result taken from the queue.  Of this result only the input batch is
\* ever read (line 324 replaces unperturbed_out before its return is used),
\* so the return and the observation count are left at fixed values.
EvaluateParent ==
    /\ pc = "evaluate_parent"
    /\ \E kind \in BatchKinds :
          unperturbed_out' = eval_fun(DummySeed, "dummy_neg", 0, 1,
                                      [id |-> n_generation - 1, kind |-> kind])
    /\ pc' = "for_generation"
    /\ UNCHANGED <<training, locals, n_generation, now, last_checkpoint_time,
                   disk, error, resumed, restore, env, shaped_returns, new_sigma, gen_disk>>

\* The start of a generation with the checkpoint written here, before the
\* generation has run
StartGenerationSaving ==
    /\ pc = "for_generation"
    /\ IF n_generation < args.max_generations
       THEN /\ pc' = "sensitivities"
            /\ processes' = <<>> /\ seeds' = <<>> /\ models' = <<>>
            /\ return_queue' = <<>>
            /\ workers' = <<>>
            /\ gen_disk' = disk
            /\ disk' = save_checkpoint(parent_model, optimizer, best_model_stdct,
                                       best_optimizer_stdct, stats)
       ELSE /\ pc' = "done"
            /\ UNCHANGED <<processes, seeds, models, return_queue, workers, gen_disk,
                           disk>>
    /\ UNCHANGED <<training, unperturbed_out, n_generation, is_negative, raw_output,
                   returns, is_anti_list, i_observations, now, last_checkpoint_time,
                   j_pair, poll, error, resumed, restore, env, shaped_returns, new_sigma>>

\* The start of a generation with the loop test `n_generation <= max_generations`
StartGenerationInclusive ==
    /\ pc = "for_generation"
    /\ IF n_generation <= args.max_generations
       THEN /\ pc' = "sensitivities"
            /\ processes' = <<>> /\ seeds' = <<>> /\ models' = <<>>
            /\ return_queue' = <<>>
            /\ workers' = <<>>
            /\ gen_disk' = disk
       ELSE /\ pc' = "done"
            /\ UNCHANGED <<processes, seeds, models, return_queue, workers, gen_disk>>
    /\ UNCHANGED <<training, unperturbed_out, n_generation, is_negative, raw_output,
                   returns, is_anti_list, i_observations, now, last_checkpoint_time,
                   disk, j_pair, poll, error, resumed, restore, env, shaped_returns, new_sigma>>

\* Lines 262-266: the loop test and the start of a generation.
StartGeneration ==
    /\ pc = "for_generation"
    /\ IF n_generation < args.max_generations
       THEN /\ pc' = "sensitivities"
            /\ processes' = <<>> /\ seeds' = <<>> /\ models' = <<>>
            /\ return_queue' = <<>>
            /\ workers' = <<>>
            /\ gen_disk' = disk
       ELSE /\ pc' = "done"
            /\ UNCHANGED <<processes, seeds, models, return_queue, workers, gen_disk>>
    /\ UNCHANGED <<training, unperturbed_out, n_generation, is_negative, raw_output,
                   returns, is_anti_list, i_observations, now, last_checkpoint_time,
                   disk, j_pair, poll, error, resumed, restore, env, shaped_returns, new_sigma>>

\* parent_model.cuda() / parent_model.cpu(): the tensors are replaced by
\* copies on the other device when the model is not on that device already.
MoveTo(model, to_cuda) ==
    IF model.is_cuda = to_cuda THEN model
    ELSE [model EXCEPT !.storage = @ + 1, !.is_cuda = to_cuda]

\* The sensitivities computed in the first generation of the run only
SensitivitiesFirstOnly ==
    /\ pc = "sensitivities"
    /\ \E moved \in {IF args.cuda THEN MoveTo(parent_model, TRUE) ELSE parent_model} :
       \E sens \in {compute_sensitivities(args, moved, unperturbed_out.inputs)} :
          IF Len(stats.generations) > Len(resumed.stats.generations)
          THEN /\ parent_model' = moved
               /\ pc' = "perturb"
               /\ j_pair' = 0
               /\ error' = error
          ELSE IF sens.ok
          THEN /\ parent_model' = [moved EXCEPT !.grad = sens.grad]
               /\ pc' = "perturb"
               /\ j_pair' = 0
               /\ error' = error
          ELSE /\ Raise("AssertionError: sensitivities")
               /\ UNCHANGED <<parent_model, j_pair>>
    /\ UNCHANGED <<args, optimizer, stats, n_episodes, n_observations,
                   max_unperturbed_return, best_model_stdct, best_optimizer_stdct,
                   unperturbed_out, n_generation, seeds, models, is_negative,
                   processes, workers, return_queue, raw_output, returns,
                   is_anti_list, i_observations, now, last_checkpoint_time, disk,
                   poll, resumed, restore, env, shaped_returns, new_sigma, gen_disk>>

\* Lines 269-271: the sensitivities of the parent for the input batch of the
\* last unperturbed evaluation.
Sensitivities ==
    /\ pc = "sensitivities"
    /\ \E moved \in {IF args.cuda THEN MoveTo(parent_model, TRUE) ELSE parent_model} :
       \E sens \in {compute_sensitivities(args, moved, unperturbed_out.inputs)} :
          IF sens.ok
          THEN /\ parent_model' = [moved EXCEPT !.grad = sens.grad]
               /\ pc' = "perturb"
               /\ j_pair' = 0
               /\ error' = error
          ELSE /\ Raise("AssertionError: sensitivities")
               /\ UNCHANGED <<parent_model, j_pair>>
    /\ UNCHANGED <<args, optimizer, stats, n_episodes, n_observations,
                   max_unperturbed_return, best_model_stdct, best_optimizer_stdct,
                   unperturbed_out, n_generation, seeds, models, is_negative,
                   processes, workers, return_queue, raw_output, returns,
                   is_anti_list, i_observations, now, last_checkpoint_time, disk,
                   poll, resumed, restore, env, shaped_returns, new_sigma, gen_disk>>

\* int(args.agents/2)
Pairs(agents) == agents \div 2

\* Lines 275-287: one pass of the loop over the pairs, or its end.
PerturbPair ==
    /\ pc = "perturb"
    /\ IF j_pair < Pairs(args.agents)
       THEN \E random_seed \in Seeds :
              \E moved \in {MoveTo(parent_model, FALSE)} :
              \E two \in {perturb_model(args, moved, random_seed)} :
                 IF two.ok
                 THEN /\ seeds' = seeds \o <<random_seed, random_seed>>
                      /\ models' = models \o two.models
                      /\ parent_model' = moved
                      /\ j_pair' = j_pair + 1
                      /\ UNCHANGED <<pc, error, is_negative>>
                 ELSE /\ Raise("AssertionError: perturbed parameters")
                      /\ UNCHANGED <<seeds, models, parent_model, j_pair, is_negative>>
       ELSE /\ is_negative' = "True"
            /\ pc' = "dispatch"
            /\ UNCHANGED <<seeds, models, parent_model, j_pair, error>>
    /\ UNCHANGED <<args, optimizer, stats, n_episodes, n_observations,
                   max_unperturbed_return, best_model_stdct, best_optimizer_stdct,
                   unperturbed_out, n_generation, processes, workers, return_queue,
                   raw_output, returns, is_anti_list, i_observations, now,
                   last_checkpoint_time, disk, poll, resumed, restore, env, shaped_returns, new_sigma, gen_disk>>

\* is_negative left as it is from one process to the next
Unflipped(b) == b

\* Line 298: is_negative = not is_negative
Not(b) == IF b = "True" THEN "False" ELSE "True"

\* mp.Process(target=eval_fun, args=inputs).start()
NewProcess(model, seed, is_neg, collect_inputs) ==
    [state |-> "running", model |-> model, seed |-> seed, is_negative |-> is_neg,
     collect_inputs |-> collect_inputs]

\* Lines 290-298: one pass of `while models`, or its end.
StartWorker ==
    /\ pc = "dispatch"
    /\ IF models # <<>>
       THEN /\ workers' = Append(workers,
                  NewProcess(Last(models), Last(seeds), is_negative, FALSE))
            /\ models' = SubSeq(models, 1, Len(models) - 1)
            /\ seeds' = SubSeq(seeds, 1, Len(seeds) - 1)
            /\ processes' = Append(processes, Len(workers) + 1)
            /\ is_negative' = Not(is_negative)
            /\ UNCHANGED pc
       ELSE /\ pc' = "dispatch_unperturbed"
            /\ UNCHANGED <<workers, models, seeds, processes, is_negative>>
    /\ UNCHANGED <<training, unperturbed_out, n_generation, return_queue, raw_output,
                   returns, is_anti_list, i_observations, now, last_checkpoint_time,
                   disk, j_pair, poll, error, resumed, restore, env, shaped_returns, new_sigma, gen_disk>>

\* Lines 300-305: the unperturbed evaluation is started as a process too.
StartUnperturbed ==
    /\ pc = "dispatch_unperturbed"
    /\ workers' = Append(workers,
           NewProcess([data |-> parent_model.data,
                       eps |-> [layer \in DOMAIN parent_model.data |->
                                  [j \in DOMAIN parent_model.data[layer] |-> 0]]],
                      DummySeed, "dummy_neg", TRUE))
    /\ processes' = Append(processes, Len(workers) + 1)
    /\ raw_output' = <<>>
    /\ pc' = "while_processes"
    /\ UNCHANGED <<training, unperturbed_out, n_generation, seeds, models,
                   is_negative, return_queue, returns, is_anti_list, i_observations,
                   now, last_checkpoint_time, disk, j_pair, poll, error, resumed, restore, env, shaped_returns, new_sigma,
                   gen_disk>>

\* ------------------------------------------------------------------------
\* The evaluation processes
\* ------------------------------------------------------------------------

\* is_alive() as it would be if a process counted as ended once it has put
\* its result
AliveUntilPut(w) == workers[w].state = "running"

Alive(w) == workers[w].state \in {"running", "put"}

\* return_queue.put(out) of process w
Put(w, ret, nobs, kind) ==
    Append(return_queue,
           [out |-> eval_fun(workers[w].seed, workers[w].is_negative, ret, nobs,
                             IF workers[w].collect_inputs
                             THEN [id |-> n_generation, kind |-> kind]
                             ELSE NoInputs),
            worker |-> w])

\* An evaluation ends and puts its result on the return queue.
WorkerPut(w) ==
    /\ workers[w].state = "running"
    /\ \E ret \in ReturnsOf(env, workers[w].model), nobs \in ObservationsOf(env),
          kind \in BatchKinds :
          /\ workers[w].collect_inputs \/ kind = 1
          /\ return_queue' = Put(w, ret, nobs, kind)
    /\ workers' = [workers EXCEPT ![w].state = "put"]
    /\ UNCHANGED <<training, unperturbed_out, n_generation, seeds, models,
                   is_negative, processes, raw_output, returns, is_anti_list,
                   i_observations, now, last_checkpoint_time, disk, pc, j_pair,
                   poll, error, resumed, restore, env, shaped_returns, new_sigma, gen_disk>>

\* A process that has put its result exits.
WorkerExit(w) ==
    /\ workers[w].state = "put"
    /\ workers' = [workers EXCEPT ![w].state = "exited"]
    /\ UNCHANGED <<training, unperturbed_out, n_generation, seeds, models,
                   is_negative, processes, return_queue, raw_output, returns,
                   is_anti_list, i_observations, now, last_checkpoint_time, disk,
                   pc, j_pair, poll, error, resumed, restore, env, shaped_returns, new_sigma, gen_disk>>

\* A process dies before it has put a result.
WorkerCrash(w) ==
    /\ workers[w].state = "running"
    /\ workers' = [workers EXCEPT ![w].state = "crashed"]
    /\ UNCHANGED <<training, unperturbed_out, n_generation, seeds, models,
                   is_negative, processes, return_queue, raw_output, returns,
                   is_anti_list, i_observations, now, last_checkpoint_time, disk,
                   pc, j_pair, poll, error, resumed, restore, env, shaped_returns, new_sigma, gen_disk>>

\* The same processes seen from the loop over the generations, where only
\* the results and their order of arrival count: a process runs to its end
\* in one step, between two passes of the coordinator's collection loop.
Evaluate(w) ==
    /\ pc = "while_processes"
    /\ workers[w].state = "running"
    /\ \E ret \in ReturnsOf(env, workers[w].model), nobs \in ObservationsOf(env),
          kind \in BatchKinds :
          /\ workers[w].collect_inputs \/ kind = 1
          /\ return_queue' = Put(w, ret, nobs, kind)
    /\ workers' = [workers EXCEPT ![w].state = "exited"]
    /\ UNCHANGED <<training, unperturbed_out, n_generation, seeds, models,
                   is_negative, processes, raw_output, returns, is_anti_list,
                   i_observations, now, last_checkpoint_time, disk, pc, j_pair,
                   poll, error, resumed, restore, env, shaped_returns, new_sigma, gen_disk>>

Die(w) ==
    /\ pc = "while_processes"
    /\ Cardinality({v \in DOMAIN workers : workers[v].state = "crashed"}) < MaxCrashes
    /\ WorkerCrash(w)

\* ------------------------------------------------------------------------
\* Collection: lines 306-315
\* ------------------------------------------------------------------------

\* `while processes:` left as soon as a result has been collected
WhileProcessesUntilResult ==
    /\ pc = "while_processes"
    /\ IF processes # <<>> /\ raw_output = <<>>
       THEN /\ pc' = "is_alive"
            /\ poll' = [i |-> 1, alive |-> <<>>]
       ELSE /\ pc' = "split"
            /\ UNCHANGED poll
    /\ UNCHANGED <<training, unperturbed_out, n_generation, seeds, models,
                   is_negative, processes, workers, return_queue, raw_output,
                   returns, is_anti_list, i_observations, now, last_checkpoint_time,
                   disk, j_pair, error, resumed, restore, env, shaped_returns, new_sigma, gen_disk>>

\* `while processes:`; after the loop the join of line 313 finds no process.
WhileProcesses ==
    /\ pc = "while_processes"
    /\ IF processes # <<>>
       THEN /\ pc' = "is_alive"
            /\ poll' = [i |-> 1, alive |-> <<>>]
       ELSE /\ pc' = "split"
            /\ UNCHANGED poll
    /\ UNCHANGED <<training, unperturbed_out, n_generation, seeds, models,
                   is_negative, processes, workers, return_queue, raw_output,
                   returns, is_anti_list, i_observations, now, last_checkpoint_time,
                   disk, j_pair, error, resumed, restore, env, shaped_returns, new_sigma, gen_disk>>

\* Line 308, one p.is_alive() at a time.
IsAlive ==
    /\ pc = "is_alive"
    /\ IF poll.i <= Len(processes)
       THEN /\ poll' = [i |-> poll.i + 1,
                        alive |-> IF Alive(processes[poll.i])
                                  THEN Append(poll.alive, processes[poll.i])
                                  ELSE poll.alive]
            /\ UNCHANGED <<processes, pc>>
       ELSE /\ processes' = poll.alive
            /\ pc' = "drain"
            /\ UNCHANGED poll
    /\ UNCHANGED <<training, unperturbed_out, n_generation, seeds, models,
                   is_negative, workers, return_queue, raw_output, returns,
                   is_anti_list, i_observations, now, last_checkpoint_time, disk,
                   j_pair, error, resumed, restore, env, shaped_returns, new_sigma, gen_disk>>

\* Lines 310-311: `while not return_queue.empty()`.
Drain ==
    /\ pc = "drain"
    /\ IF return_queue # <<>>
       THEN /\ raw_output' = Append(raw_output, Head(return_queue))
            /\ return_queue' = Tail(return_queue)
            /\ UNCHANGED pc
       ELSE /\ pc' = "while_processes"
            /\ UNCHANGED <<raw_output, return_queue>>
    /\ UNCHANGED <<training, unperturbed_out, n_generation, seeds, models,
                   is_negative, processes, workers, returns, is_anti_list,
                   i_observations, now, last_checkpoint_time, disk, j_pair, poll,
                   error, resumed, restore, env, shaped_returns, new_sigma, gen_disk>>

\* Lines 306-315 once every process has terminated: the pass of the loop
\* that finds no process alive takes every result off the queue, the loop
\* ends and the join finds no process.
Collect ==
    /\ pc = "while_processes"
    /\ \A w \in DOMAIN workers : ~Alive(w)
    /\ processes' = SelectSeq(processes, Alive)
    /\ raw_output' = raw_output \o return_queue
    /\ return_queue' = <<>>
    /\ pc' = "split"
    /\ UNCHANGED <<training, unperturbed_out, n_generation, seeds, models,
                   is_negative, workers, returns, is_anti_list, i_observations,
                   now, last_checkpoint_time, disk, j_pair, poll, error, resumed, restore, env, shaped_returns, new_sigma,
                   gen_disk>>

\* ------------------------------------------------------------------------
\* Aggregation: lines 317-332
\* ------------------------------------------------------------------------

Column(outs, key) == [i \in DOMAIN outs |-> outs[i].out[key]]

\* The split with returns.pop() in place of returns.pop(unperturbed_index)
SplitResultsPopLastReturn(outs) ==
    LET all_seeds == Column(outs, "seed")
        unperturbed_index == IndexOf(all_seeds, DummySeed)
    IN IF unperturbed_index = 0
       THEN [found |-> FALSE]
       ELSE [found           |-> TRUE,
             unperturbed_out |-> outs[unperturbed_index].out,
             raw_output      |-> PopAt(outs, unperturbed_index),
             seeds           |-> PopAt(all_seeds, unperturbed_index),
             returns         |-> PopAt(Column(outs, "return"), Len(outs)),
             is_anti_list    |-> PopAt(Column(outs, "is_anti"), unperturbed_index),
             i_observations  |-> PopAt(Column(outs, "n_observations"), unperturbed_index)]

\* The split that leaves the observations of the unperturbed evaluation in
\* i_observations
SplitResultsAllObservations(outs) ==
    LET all_seeds == Column(outs, "seed")
        unperturbed_index == IndexOf(all_seeds, DummySeed)
    IN IF unperturbed_index = 0
       THEN [found |-> FALSE]
       ELSE [found           |-> TRUE,
             unperturbed_out |-> outs[unperturbed_index].out,
             raw_output      |-> PopAt(outs, unperturbed_index),
             seeds           |-> PopAt(all_seeds, unperturbed_index),
             returns         |-> PopAt(Column(outs, "return"), unperturbed_index),
             is_anti_list    |-> PopAt(Column(outs, "is_anti"), unperturbed_index),
             i_observations  |-> Column(outs, "n_observations")]

\* The four lists of the results and the removal of the unperturbed one.
\* found is FALSE when no result carries 'dummy_seed' (seeds.index raises
\* ValueError).
SplitResults(outs) ==
    LET all_seeds == Column(outs, "seed")
        unperturbed_index == IndexOf(all_seeds, DummySeed)
    IN IF unperturbed_index = 0
       THEN [found |-> FALSE]
       ELSE [found           |-> TRUE,
             unperturbed_out |-> outs[unperturbed_index].out,
             raw_output      |-> PopAt(outs, unperturbed_index),
             seeds           |-> PopAt(all_seeds, unperturbed_index),
             returns         |-> PopAt(Column(outs, "return"), unperturbed_index),
             is_anti_list    |-> PopAt(Column(outs, "is_anti"), unperturbed_index),
             i_observations  |-> PopAt(Column(outs, "n_observations"), unperturbed_index)]

Split ==
    /\ pc = "split"
    /\ \E sp \in {SplitResults(raw_output)} :
          IF sp.found
          THEN /\ unperturbed_out' = sp.unperturbed_out
               /\ raw_output' = sp.raw_output
               /\ seeds' = sp.seeds
               /\ returns' = sp.returns
               /\ is_anti_list' = sp.is_anti_list
               /\ i_observations' = sp.i_observations
               /\ pc' = "gradients"
               /\ error' = error
          ELSE /\ Raise("ValueError: 'dummy_seed' is not in list")
               /\ seeds' = Column(raw_output, "seed")
               /\ returns' = Column(raw_output, "return")
               /\ is_anti_list' = Column(raw_output, "is_anti")
               /\ i_observations' = Column(raw_output, "n_observations")
               /\ UNCHANGED <<unperturbed_out, raw_output>>
    /\ UNCHANGED <<training, n_generation, models, is_negative, processes, workers,
                   return_queue, now, last_checkpoint_time, disk, j_pair, poll,
                   resumed, restore, env, shaped_returns, new_sigma, gen_disk>>

\* ------------------------------------------------------------------------
\* Gradient, update and statistics: lines 334-389
\* ------------------------------------------------------------------------

\* get_lr(optimizer)
get_lr(opt) == opt.lr

\* Lines 335-340.
Gradients ==
    /\ pc = "gradients"
    /\ stats' = [stats EXCEPT !.lr = Append(@, get_lr(optimizer))]
    \* line 179, reached when the two assertions on the lengths hold
    /\ shaped_returns' = IF Len(returns) = args.agents /\ Len(seeds) = Len(returns)
                         THEN fitness_shaping(returns) ELSE shaped_returns
    /\ \E moved \in {IF args.cuda THEN MoveTo(parent_model, TRUE) ELSE parent_model} :
       \E g \in {compute_gradients(args, moved, returns, seeds, is_anti_list)} :
          IF g.ok
          THEN /\ parent_model' =
                    (IF args.cuda THEN MoveTo([moved EXCEPT !.grad = g.grad], FALSE)
                     ELSE [moved EXCEPT !.grad = g.grad])
               /\ args' = [args EXCEPT !.beta_grad = g.beta_grad]
               /\ pc' = "update"
               /\ error' = error
          ELSE /\ parent_model' = [moved EXCEPT !.grad = g.grad]
               /\ Raise(g.error)
               /\ UNCHANGED args
    /\ UNCHANGED <<optimizer, n_episodes, n_observations,
                   max_unperturbed_return, best_model_stdct, best_optimizer_stdct,
                   unperturbed_out, n_generation, locals, now, last_checkpoint_time,
                   disk, resumed, restore, env, new_sigma, gen_disk>>

\* optimizer.step(): every parameter tensor is changed in place by the step
\* size times its gradient, and the optimizer's own state moves on.
StepData(opt, model) ==
    [layer \in DOMAIN model.data |-> [j \in DOMAIN model.data[layer] |->
        model.data[layer][j] - opt.lr * model.grad[layer][j]]]

\* The values new_sigma = sqrt(0.5*exp(beta)) may take once the optimizer
\* has stepped beta against its gradient.  beta is kept as the sigma it
\* stands for; a step of beta up or down moves that sigma by a factor above
\* or below one, and no gradient leaves it where it is.
NewSigmas(beta, beta_grad) ==
    \* beta - lr * inf is -inf and its exp 0.0; beta + lr * inf is inf
    IF beta_grad = Inf THEN {0}
    ELSE IF beta_grad = -Inf THEN {Inf}
    ELSE IF beta_grad < 0 THEN {TruncDiv(beta * f, 10) : f \in {11, 20}}
    ELSE IF beta_grad > 0 THEN {TruncDiv(beta * f, 10) : f \in {5, 9}}
    ELSE {beta}

\* sigma taken from new_sigma as it is
AdaptSigmaUnclamped(sigma, new) == new

\* Lines 347-352: the step of sigma is held within a factor 0.8 .. 1.2.
AdaptSigma(sigma, new) ==
    IF new * 10 > sigma * 12 THEN TruncDiv(sigma * 12, 10)
    ELSE IF new * 10 < sigma * 8 THEN TruncDiv(sigma * 8, 10)
    ELSE new

\* The statistics without the append to stats['sigma']
StoreStatisticsWithoutSigma(st, generation, episodes, observations, walltime, rets, unp, rank, sigma) ==
    [st EXCEPT !.generations  = Append(@, generation),
               !.episodes     = Append(@, episodes),
               !.observations = Append(@, observations),
               !.walltimes    = Append(@, walltime),
               !.return_avg   = Append(@, Mean1000(rets)),
               !.return_var   = Append(@, Var1000(rets)),
               !.return_max   = Append(@, SeqMax(rets)),
               !.return_min   = Append(@, SeqMin(rets)),
               !.return_unp   = Append(@, unp),
               !.unp_rank     = Append(@, rank)]

\* Lines 375-385: one entry more in every list but lr.
StoreStatistics(st, generation, episodes, observations, walltime, rets, unp, rank, sigma) ==
    [st EXCEPT !.generations  = Append(@, generation),
               !.episodes     = Append(@, episodes),
               !.observations = Append(@, observations),
               !.walltimes    = Append(@, walltime),
               !.return_avg   = Append(@, Mean1000(rets)),
               !.return_var   = Append(@, Var1000(rets)),
               !.return_max   = Append(@, SeqMax(rets)),
               !.return_min   = Append(@, SeqMin(rets)),
               !.return_unp   = Append(@, unp),
               !.unp_rank     = Append(@, rank),
               !.sigma        = Append(@, sigma)]

\* Lines 341-389.  The clock is read for the wall time of the generation.
Update ==
    /\ pc = "update"
    /\ \E tick \in 1..MaxTick :
       \E new \in (IF args.optimize_sigma THEN NewSigmas(args.beta, args.beta_grad)
                   ELSE {new_sigma}) :
       \E stepped \in {[parent_model EXCEPT !.data = StepData(optimizer, parent_model)]} :
          LET opt      == [optimizer EXCEPT !.steps = @ + 1]
              sigma    == IF args.optimize_sigma
                          THEN AdaptSigma(args.sigma, new) ELSE args.sigma
              unp      == unperturbed_out.return
              rank     == unperturbed_rank(returns, unp)
              better   == unp >= max_unperturbed_return
              episodes == n_episodes + Len(returns)
              observed == n_observations + SeqSum(i_observations)
          IN /\ parent_model' = stepped
             /\ optimizer' = opt
             /\ new_sigma' = new
             /\ args' = [args EXCEPT !.sigma = sigma,
                                     !.beta = IF args.optimize_sigma THEN sigma ELSE @]
             /\ best_model_stdct' =
                    IF better THEN ModelStateDict(stepped) ELSE best_model_stdct
             /\ best_optimizer_stdct' =
                    IF better THEN OptimizerStateDict(opt) ELSE best_optimizer_stdct
             /\ max_unperturbed_return' =
                    IF better THEN unp ELSE max_unperturbed_return
             /\ n_episodes' = episodes
             /\ n_observations' = observed
             /\ now' = now + tick
             /\ stats' = StoreStatistics(stats, n_generation, episodes, observed,
                                         now + tick - stats.start_time, returns,
                                         unp, rank, sigma)
    /\ pc' = "checkpoint"
    /\ UNCHANGED <<unperturbed_out, n_generation, locals, last_checkpoint_time,
                   disk, error, resumed, restore, env, shaped_returns, gen_disk>>

\* The end of a generation with the checkpoint written as soon as
\* checkpoint_interval has elapsed
CheckpointAtInterval ==
    /\ pc = "checkpoint"
    /\ IF last_checkpoint_time <= now - CheckpointInterval
       THEN /\ disk' = save_checkpoint(parent_model, optimizer, best_model_stdct,
                                       best_optimizer_stdct, stats)
            /\ last_checkpoint_time' = now
       ELSE UNCHANGED <<disk, last_checkpoint_time>>
    /\ n_generation' = n_generation + 1
    /\ pc' = "for_generation"
    /\ seeds' = <<>> /\ raw_output' = <<>> /\ returns' = <<>>
    /\ is_anti_list' = <<>> /\ i_observations' = <<>> /\ workers' = <<>>
    /\ shaped_returns' = <<>> /\ new_sigma' = 0
    /\ UNCHANGED <<training, unperturbed_out, models, is_negative, processes,
                   return_queue, j_pair, poll, now, error, resumed, restore, env, gen_disk>>

\* Lines 391-395, and on to the next generation.
Checkpoint ==
    /\ pc = "checkpoint"
    /\ IF last_checkpoint_time < now - CheckpointInterval
       THEN /\ disk' = save_checkpoint(parent_model, optimizer, best_model_stdct,
                                       best_optimizer_stdct, stats)
            /\ last_checkpoint_time' = now
       ELSE UNCHANGED <<disk, last_checkpoint_time>>
    /\ n_generation' = n_generation + 1
    /\ pc' = "for_generation"
    \* the lists of this generation are not read again: the next pass of the
    \* loop assigns each of them anew before it reads it (lines 265, 305, 318-321)
    /\ seeds' = <<>> /\ raw_output' = <<>> /\ returns' = <<>>
    /\ is_anti_list' = <<>> /\ i_observations' = <<>> /\ workers' = <<>>
    /\ shaped_returns' = <<>> /\ new_sigma' = 0
    /\ UNCHANGED <<training, unperturbed_out, models, is_negative, processes,
                   return_queue, j_pair, poll, now, error, resumed, restore, env, gen_disk>>

\* ------------------------------------------------------------------------
\* The specification
\* ------------------------------------------------------------------------

\* The steps of the coordinator up to the start of the processes.
Dispatch ==
    \/ EvaluateParent
    \/ StartGeneration
    \/ Sensitivities
    \/ PerturbPair
    \/ StartWorker
    \/ StartUnperturbed

\* The steps of the coordinator on the collected results.
Aggregate ==
    \/ Split
    \/ Gradients
    \/ Update
    \/ Checkpoint

\* The loop over the generations: the processes of a generation end in any
\* order, and the coordinator collects when the last one has ended.
Next ==
    \/ Dispatch
    \/ \E w \in DOMAIN workers : Evaluate(w)
    \/ \E w \in DOMAIN workers : Die(w)
    \/ Collect
    \/ Aggregate

Spec == Init /\ [][Next]_vars

\* One generation with every interleaving of the coordinator and the
\* processes it has started.
NextConcurrent ==
    \/ Dispatch
    \/ WhileProcesses
    \/ IsAlive
    \/ Drain
    \/ Aggregate
    \/ \E w \in DOMAIN workers : WorkerPut(w)
    \/ \E w \in DOMAIN workers : WorkerExit(w)
    \/ \E w \in DOMAIN workers : WorkerCrash(w)

SpecConcurrent == InitConcurrent /\ [][NextConcurrent]_vars

\* The loop over the generations for one generation with more agents.
SpecGeneration == InitGeneration /\ [][Next]_vars

\* Two generations of a fresh run with every interleaving of the coordinator
\* and its processes, in an environment whose return is a function of the
\* evaluated parameters.
InitTwoGenerations ==
    \E d \in {-3, 2} :
       InitTraining(2, FALSE, FALSE, FALSE, Shape(FALSE), NoCheckpoint, 2,
                    Quadratic(InitialData(Shape(FALSE))[1][1] + d * QuadUnit), 5 * 10000)

SpecTwoGenerations == InitTwoGenerations /\ [][NextConcurrent]_vars

\* Runs in which every process started puts its result and exits: fresh and
\* resumed, of no generation (max_generations at or below the generation
\* to start with), one or MaxRun generations.
InitDelivering ==
    \E agents \in AgentCounts, safe \in BOOLEAN, opt_sigma \in BOOLEAN,
       run \in {-1, 0, 1, MaxRun} :
       \/ InitTraining(agents, FALSE, safe, opt_sigma, Shape(safe), NoCheckpoint, run,
                       Rewards, 5 * 10000)
       \/ \E g \in ResumePoints :
          \E beta \in {5 * 10000} \cup (IF opt_sigma THEN {ExpUnderflow} ELSE {}) :
             InitTraining(agents, FALSE, safe, opt_sigma, Shape(safe),
                          EarlierCheckpoint(g, agents, Shape(safe)), run, Rewards, beta)

NextDelivering ==
    \/ Dispatch
    \/ \E w \in DOMAIN workers : Evaluate(w)
    \/ Collect
    \/ Aggregate

\* The coordinator is a sequential program that goes on with its next
\* statement, and every process goes on to its put and its exit.
SpecDelivering == InitDelivering /\ [][NextDelivering]_vars /\ WF_vars(NextDelivering)

\* fitness_shaping on its own, for arrays of returns of every length from
\* two on, equal returns among them.
InitShaping ==
    \E n \in 2..MaxLen : \E rs \in [1..n -> 0..MaxShaped] :
       /\ InitRun(2, FALSE, FALSE, FALSE, Shape(FALSE), NoCheckpoint, 1, Rewards,
                  5 * 10000)
       /\ restore = NoRestore
       /\ returns = rs
       /\ pc = "fitness_shaping"

ApplyShaping ==
    /\ pc = "fitness_shaping"
    /\ shaped_returns' = fitness_shaping(returns)
    /\ pc' = "shaped"
    /\ UNCHANGED <<training, unperturbed_out, n_generation, locals, now,
                   last_checkpoint_time, disk, error, resumed, restore, gen_disk,
                   env, new_sigma>>

SpecShaping == InitShaping /\ [][ApplyShaping]_vars

\* the targets lie this many steps of QuadUnit from the first parameter
Distances == {-20, -4, 7, 20}

\* One generation of a fresh run of four agents on a policy of one
\* parameter, up to the gradients, in the environment whose return is
\* -(param - target)^2.
InitQuadratic ==
    \E cuda \in BOOLEAN, d \in Distances :
       InitTraining(4, cuda, FALSE, FALSE, OneParameter, NoCheckpoint, 1,
                    Quadratic(InitialData(OneParameter)[1][1] + d * QuadUnit),
                    5 * 10000)

NextQuadratic ==
    \/ Dispatch
    \/ \E w \in DOMAIN workers : Evaluate(w)
    \/ Collect
    \/ Split
    \/ Gradients

SpecQuadratic == InitQuadratic /\ [][NextQuadratic]_vars

\* The loop over the generations in the environment of episodes: fresh runs
\* and resumed ones of MaxRun generations.
InitCounters ==
    \E agents \in AgentCounts :
       \/ InitTraining(agents, FALSE, FALSE, FALSE, Shape(FALSE), NoCheckpoint, MaxRun,
                       Episodes, 5 * 10000)
       \/ \E g \in ResumePoints :
             InitTraining(agents, FALSE, FALSE, FALSE, Shape(FALSE),
                          EarlierCheckpoint(g, agents, Shape(FALSE)), MaxRun,
                          Episodes, 5 * 10000)

SpecCounters == InitCounters /\ [][Next]_vars

\* ------------------------------------------------------------------------
\* The program from its command line: mnist_main.py lines 51-54, then
\* train_loop
\* ------------------------------------------------------------------------

\* the numbers of agents a command line may give
CommandLineAgents == 1..3

\* the files a restore reads
CheckpointFiles == {"model_state_dict.pth", "optimizer_state_dict.pth", "stats.pkl"}

\* The restores a program may be started with: none, the one of
\* mnist_main.py (--restore names the file of a model state dict) or
\* load_checkpoint; bad holds the files that are missing or unreadable.
Restores(agents) ==
    {NoRestore} \cup
    {[by |-> by, bad |-> bad, failed |-> FALSE,
      files |-> EarlierCheckpoint(g, agents, Shape(FALSE))] :
        by \in {"mnist_main", "load_checkpoint"},
        bad \in {{}, {"model_state_dict.pth"}, {"stats.pkl"}, CheckpointFiles},
        g \in ResumePoints}

InitConfigured ==
    \E agents \in CommandLineAgents, cuda \in BOOLEAN :
       \E r \in Restores(agents) :
          /\ InitRun(agents, cuda, FALSE, FALSE, Shape(FALSE), NoCheckpoint, 1,
                     Rewards, 5 * 10000)
          /\ returns = <<>>
          /\ restore = r
          /\ pc = "input_validation"

\* The input validation without the assertion on the number of agents
InputValidationAnyAgents ==
    /\ pc = "input_validation"
    /\ IF args.cuda
       THEN Raise("AttributeError: cuda_is_available")
       ELSE pc' = "restore" /\ UNCHANGED error
    /\ UNCHANGED <<training, locals, unperturbed_out, n_generation, now,
                   last_checkpoint_time, disk, resumed, restore, env, shaped_returns,
                   new_sigma, gen_disk>>

\* mnist_main.py lines 51-54.  Line 54 calls torch.cuda_is_available, which
\* torch does not have: with --cuda the second operand is evaluated and the
\* attribute error ends the program.
InputValidation ==
    /\ pc = "input_validation"
    /\ IF args.agents % 2 # 0
       THEN Raise("AssertionError: agents")
       ELSE IF args.cuda
       THEN Raise("AttributeError: cuda_is_available")
       ELSE pc' = "restore" /\ UNCHANGED error
    /\ UNCHANGED <<training, locals, unperturbed_out, n_generation, now,
                   last_checkpoint_time, disk, resumed, restore, env, shaped_returns,
                   new_sigma, gen_disk>>

\* mnist_main.py lines 83-90: the exception of a failed restore is caught,
\* a line is printed and the program goes on to train_loop with the model
\* as it was created.
RestoreModel ==
    /\ pc = "restore"
    /\ restore.by \in {"none", "mnist_main"}
    /\ IF restore.by = "none"
       THEN UNCHANGED <<parent_model, restore>>
       ELSE IF "model_state_dict.pth" \in restore.bad
       THEN /\ restore' = [restore EXCEPT !.failed = TRUE]
            /\ UNCHANGED parent_model
       ELSE /\ parent_model' = [parent_model EXCEPT !.data = restore.files.model.data]
            /\ UNCHANGED restore
    /\ pc' = "evaluate_parent"
    /\ UNCHANGED <<args, optimizer, stats, n_episodes, n_observations,
                   max_unperturbed_return, best_model_stdct, best_optimizer_stdct,
                   locals, unperturbed_out, n_generation, now, last_checkpoint_time,
                   disk, error, resumed, env, shaped_returns, new_sigma, gen_disk>>

\* es/utils.py lines 80-101 and, when the restore succeeds, train_loop lines
\* 244-250 for the statistics it returns: the three files are read before
\* anything is changed, and a failure is raised to the caller.
LoadCheckpoint ==
    /\ pc = "restore"
    /\ restore.by = "load_checkpoint"
    /\ IF restore.bad # {}
       THEN /\ restore' = [restore EXCEPT !.failed = TRUE]
            /\ Raise("Exception")
            /\ UNCHANGED <<args, parent_model, optimizer, stats, n_episodes,
                           n_observations, max_unperturbed_return, n_generation,
                           resumed, disk>>
       ELSE /\ parent_model' = [parent_model EXCEPT !.data = restore.files.model.data]
            /\ optimizer' = [steps |-> restore.files.optimizer.steps,
                             lr |-> restore.files.optimizer.lr]
            /\ stats' = restore.files.stats
            /\ n_episodes' = Last(restore.files.stats.episodes)
            /\ n_observations' = Last(restore.files.stats.observations)
            /\ n_generation' = start_generation(restore.files.stats)
            /\ args' = [args EXCEPT !.sigma = restored_sigma(restore.files.stats),
                                    !.max_generations =
                                        start_generation(restore.files.stats) + 1]
            /\ max_unperturbed_return' = restored_max_return(restore.files.stats)
            /\ resumed' = restore.files
            /\ disk' = restore.files
            /\ pc' = "evaluate_parent"
            /\ UNCHANGED <<restore, error>>
    /\ UNCHANGED <<best_model_stdct, best_optimizer_stdct, locals, unperturbed_out,
                   now, last_checkpoint_time, env, shaped_returns, new_sigma,
                   gen_disk>>

NextConfigured ==
    \/ InputValidation
    \/ RestoreModel
    \/ LoadCheckpoint
    \/ Next

SpecConfigured == InitConfigured /\ [][NextConfigured]_vars

\* ------------------------------------------------------------------------
\* Properties
\* ------------------------------------------------------------------------

\* the processes of the perturbed evaluations
Perturbed == {w \in DOMAIN workers : workers[w].seed # DummySeed}

\* the processes that have put a result on the return queue
Delivered == {w \in DOMAIN workers : workers[w].state \in {"put", "exited"}}

\* the places of the collected results that process w has put
CollectedFrom(w) == {i \in DOMAIN raw_output : raw_output[i].worker = w}

AllExited ==
    /\ Len(workers) = args.agents + 1
    /\ \A w \in DOMAIN workers : workers[w].state = "exited"

\* C1: whenever the coordinator splits the results or computes the
\* gradients, all N+1 processes of the generation have been started and have
\* terminated, the return queue is empty, and the result of every process
\* that has put one is among the collected results exactly once (the
\* unperturbed one until the split has taken it out).
C1_AggregationAfterCollection ==
    pc \in {"split", "gradients", "update"} =>
        /\ Len(workers) = args.agents + 1
        /\ \A w \in DOMAIN workers : workers[w].state \in {"exited", "crashed"}
        /\ return_queue = <<>>
        /\ \A w \in Delivered :
              Cardinality(CollectedFrom(w)) =
                 (IF pc # "split" /\ workers[w].seed = DummySeed THEN 0 ELSE 1)

\* all three results collected, the one started last arriving first
C1_Witness ==
    /\ pc = "split"
    /\ AllExited
    /\ Len(raw_output) = args.agents + 1
    /\ raw_output[1].worker = Len(workers)

\* C2: once the N perturbed evaluations are dispatched, every seed value
\* among them occurs exactly twice, once with is_negative false and once
\* with is_negative true.
C2_EachSeedExactlyTwice ==
    pc = "while_processes" =>
        \A w \in Perturbed :
            /\ Cardinality({v \in Perturbed : workers[v].seed = workers[w].seed}) = 2
            /\ \E v \in Perturbed :
                  /\ workers[v].seed = workers[w].seed
                  /\ workers[v].is_negative # workers[w].is_negative

\* two pairs of one generation have drawn the same seed
C2_SameSeedDrawnTwice ==
    /\ pc = "while_processes"
    /\ args.agents = 4
    /\ \A w \in Perturbed : workers[w].seed = 0

\* C3: a call of perturb_model adds two models with the same noise, the
\* first the parent plus sigma times the noise and the second the parent
\* minus it, so that their parameters add up to twice the parent's, and it
\* leaves the parameters of the parent as they were.
C3_AntitheticPair ==
    [][pc = "perturb" /\ Len(models') = Len(models) + 2 =>
          LET plus  == models'[Len(models) + 1]
              minus == models'[Len(models) + 2]
          IN /\ plus.eps = minus.eps
             /\ parent_model'.data = parent_model.data
             /\ \A layer \in DOMAIN parent_model.data : \A j \in DOMAIN parent_model.data[layer] :
                   /\ plus.data[layer][j] =
                         parent_model.data[layer][j] + args.sigma * plus.eps[layer][j]
                   /\ minus.data[layer][j] =
                         parent_model.data[layer][j] - args.sigma * plus.eps[layer][j]
                   /\ plus.data[layer][j] + minus.data[layer][j] =
                         2 * parent_model.data[layer][j]
    ]_vars

\* a pair of a resumed run with safe mutation whose two models differ
C3_Witness ==
    /\ pc = "perturb"
    /\ Len(models) = 2
    /\ models[1].data # models[2].data
    /\ args.safe_mutation
    /\ resumed.exists

\* C4: when compute_gradients is about to run, the noise it regenerates
\* from seeds[i] for every parameter tensor is the noise perturb_model drew
\* for the model that result i was evaluated with.
C4_NoiseRegeneratedFromSeed ==
    pc = "gradients" =>
        \A i \in DOMAIN seeds :
            LET seen  == IF args.cuda THEN MoveTo(parent_model, TRUE) ELSE parent_model
                noise == RegeneratedNoise(args, seen, seeds[i])
            IN \A layer \in DOMAIN parent_model.data :
                  noise[layer].eps = workers[raw_output[i].worker].model.eps[layer]

\* the gradients of a full generation are about to be computed with cuda
C4_GradientsOnCuda ==
    /\ pc = "gradients"
    /\ args.cuda
    /\ Len(seeds) = args.agents

\* C5: for two and for four agents, when every process has delivered its
\* result, N+1 results are
\* collected and exactly one carries the marker; after the split the four
\* lists have N entries each, none with the marker, and entry i of each
\* comes from one and the same result, a different one for every i.
C5_MarkerStripped ==
    AllExited =>
        /\ pc = "split" =>
              /\ Len(raw_output) = args.agents + 1
              /\ Cardinality({i \in DOMAIN raw_output :
                                 raw_output[i].out.seed = DummySeed}) = 1
        /\ pc = "gradients" =>
              /\ unperturbed_out.seed = DummySeed
              /\ Len(seeds) = args.agents
              /\ Len(returns) = args.agents
              /\ Len(is_anti_list) = args.agents
              /\ Len(i_observations) = args.agents
              /\ Len(raw_output) = args.agents
              /\ Cardinality({raw_output[i].worker : i \in DOMAIN raw_output})
                    = args.agents
              /\ \A i \in 1..args.agents :
                    /\ seeds[i] # DummySeed
                    /\ is_anti_list[i] # "dummy_neg"
                    /\ raw_output[i].worker \in Perturbed
                    /\ seeds[i] = raw_output[i].out.seed
                    /\ returns[i] = raw_output[i].out.return
                    /\ is_anti_list[i] = raw_output[i].out.is_anti
                    /\ i_observations[i] = raw_output[i].out.n_observations

\* the split has acted on the five results of four agents, the first two of
\* the perturbed results left with different returns
C5_Witness ==
    /\ pc = "gradients"
    /\ AllExited
    /\ args.agents = 4
    /\ Len(seeds) = args.agents
    /\ returns[1] # returns[2]

\* C6: until a resumed run has completed a generation, the generation it
\* runs is the one after the last restored generation, sigma is the last
\* restored sigma, and the perturbed models it evaluates lie sigma times the
\* noise away from the parent.
C6_ResumeGenerationAndSigma ==
    resumed.exists /\ Len(stats.generations) = Len(resumed.stats.generations) =>
        /\ n_generation = resumed.stats.generations[Len(resumed.stats.generations)] + 1
        /\ args.sigma = resumed.stats.sigma[Len(resumed.stats.sigma)]
        /\ \A w \in Perturbed : \A layer \in DOMAIN parent_model.data :
           \A j \in DOMAIN parent_model.data[layer] :
              Abs(workers[w].model.data[layer][j] - parent_model.data[layer][j])
                 = resumed.stats.sigma[Len(resumed.stats.sigma)]
                   * Abs(workers[w].model.eps[layer][j])

\* the gradients of generation 11 are about to be computed with sigma 0.07
\* after a resume from statistics of length 11
C6_Witness ==
    /\ resumed.exists
    /\ Len(resumed.stats.generations) = 11
    /\ pc = "gradients"
    /\ n_generation = 11
    /\ args.sigma = 70000
    /\ Len(seeds) = args.agents

\* C7: a checkpoint written after a resume, while no resumed generation has
\* reached the restored maximum of the unperturbed return, holds the best
\* policy and the best optimizer state of the restored checkpoint.
C7_CheckpointKeepsRestoredBest ==
    /\ resumed.exists
    /\ Len(disk.stats.generations) > Len(resumed.stats.generations)
    /\ \A i \in (Len(resumed.stats.return_unp) + 1)..Len(disk.stats.return_unp) :
          disk.stats.return_unp[i] < SeqMax(resumed.stats.return_unp)
    => /\ disk.best_model = resumed.best_model
       /\ disk.best_optimizer = resumed.best_optimizer

\* such a checkpoint has been written, and its best policy is None
C7_BestLostAfterResume ==
    /\ resumed.exists
    /\ Len(disk.stats.generations) > Len(resumed.stats.generations)
    /\ \A i \in (Len(resumed.stats.return_unp) + 1)..Len(disk.stats.return_unp) :
          disk.stats.return_unp[i] < SeqMax(resumed.stats.return_unp)
    /\ disk.best_model = None

\* C8: in every checkpoint the twelve lists of the statistics have the same
\* length, the optimizer has stepped once for every recorded generation,
\* and as long as no further generation is recorded the persisted policy is
\* the policy after the update of the last recorded generation.
C8_CheckpointOfCompletedGeneration ==
    disk.exists =>
        /\ \A k \in StatKeys : Len(disk.stats[k]) = Len(disk.stats.generations)
        /\ disk.optimizer.steps = Len(disk.stats.generations)
        /\ Len(stats.generations) = Len(disk.stats.generations) =>
              /\ disk.model.data = parent_model.data
              /\ disk.optimizer.steps = optimizer.steps

\* a fresh run has written a checkpoint at the end of its second generation
C8_Witness ==
    /\ disk.exists
    /\ ~resumed.exists
    /\ Len(disk.stats.generations) = 2
    /\ disk.model.data # InitialData(Shape(FALSE))

\* C9: when the loop has stopped on a fatal condition, the checkpoint files
\* are those the generation started with.
C9_AbortWritesNoCheckpoint ==
    pc = "aborted" => disk = gen_disk

\* the loop has stopped in the second generation after a resume, the first
\* one having written no checkpoint
C9_Witness ==
    /\ pc = "aborted"
    /\ disk.exists
    /\ Len(stats.generations) > Len(disk.stats.generations)
    /\ error = "ValueError: 'dummy_seed' is not in list"

\* C10: once a process of the generation has died without a result, no
\* step of the coordinator reaches the update, changes the parameters of the
\* policy, steps the optimizer or changes sigma.
C10_NoUpdateAfterLostWorker ==
    [][(\E w \in DOMAIN workers : workers[w].state = "crashed") =>
          /\ pc' \notin {"update", "checkpoint"}
          /\ parent_model'.data = parent_model.data
          /\ optimizer' = optimizer
          /\ args'.sigma = args.sigma
    ]_vars

\* the loop has stopped on the batch-size assertion after a perturbed
\* evaluation died
C10_Witness ==
    /\ pc = "aborted"
    /\ \E w \in Perturbed : workers[w].state = "crashed"
    /\ error = "AssertionError: batch_size"

\* C11: when the optimizer is about to step, neither the gradient of the
\* parameters nor the gradient of beta holds inf (or nan): compute_gradients
\* has failed on every gradient that does, so that none is applied.
C11_NonFiniteGradientIsFatal ==
    pc = "update" =>
        /\ args.beta_grad \notin {Inf, -Inf}
        /\ \A layer \in DOMAIN parent_model.grad : \A j \in DOMAIN parent_model.grad[layer] :
              Abs(parent_model.grad[layer][j]) < Inf

\* the optimizer has stepped beta by a gradient of -inf: new_sigma was inf
\* and sigma has grown by the factor 1.2
C11_InfiniteBetaGradientApplied ==
    /\ pc = "checkpoint"
    /\ args.beta_grad = -Inf
    /\ new_sigma = Inf
    /\ args.sigma = 84000

\* C12: in a generation that adapts sigma, the sigma after the adaptation
\* lies between 0.8 and 1.2 times the sigma before it, whatever new_sigma
\* the stepped beta gives, and it is new_sigma itself when new_sigma lies
\* between these two.
C12_SigmaStepBounded ==
    [][pc = "update" /\ args.optimize_sigma =>
          /\ 8 * args.sigma <= 10 * args'.sigma
          /\ 10 * args'.sigma <= 12 * args.sigma
          /\ (8 * args.sigma <= 10 * new_sigma' /\ 10 * new_sigma' <= 12 * args.sigma)
                => args'.sigma = new_sigma'
    ]_vars

\* a fresh run of four agents has held a new_sigma of twice its sigma of
\* 0.05 at 0.06
C12_Witness ==
    /\ pc = "checkpoint"
    /\ args.optimize_sigma
    /\ args.agents = 4
    /\ stats.sigma = <<60000>>
    /\ new_sigma = 100000

\* C13: for every array of two or more returns, the utilities have a
\* positive sum, the weights fitness_shaping returns are the utilities over
\* that sum less 1/n (here times n and the sum), they add up to zero, and
\* a higher return never has the lower weight.
C13_ShapedReturnsSumToZero ==
    pc = "shaped" =>
        LET n == Len(returns)
            u == Utilities(returns)
        IN /\ Len(shaped_returns) = n
           /\ SeqSum(u) > 0
           /\ \A i \in 1..n : u[i] >= 0
           /\ \A i \in 1..n : shaped_returns[i] = n * u[i] - SeqSum(u)
           /\ SeqSum(shaped_returns) = 0
           /\ \A i, j \in 1..n :
                 returns[i] > returns[j] => shaped_returns[i] >= shaped_returns[j]

\* five returns, two of them equal, have been shaped
C13_Witness ==
    /\ pc = "shaped"
    /\ returns = <<1, 0, 2, 1, 0>>
    /\ shaped_returns[2] < 0
    /\ shaped_returns[3] > 0

InRange(grad) ==
    \A layer \in DOMAIN grad : \A j \in DOMAIN grad[layer] :
        /\ grad[layer][j] * 100000 >= SensUnit
        /\ grad[layer][j] <= 100000 * SensUnit

\* C15: compute_sensitivities ends, for every input batch, with a map
\* stored on the policy whose elements all lie in [1e-5, 1e5], an element
\* of no sensitivity being 1; so it does for a batch that leaves a whole
\* parameter tensor without sensitivity.
C15_SensitivitiesInRange ==
    [][pc = "sensitivities" =>
          /\ pc' = "perturb"
          /\ InRange(parent_model'.grad)
          /\ \A layer \in DOMAIN parent_model.data :
             \A j \in DOMAIN parent_model.data[layer] :
                RawSens(parent_model, unperturbed_out.inputs)[layer][j] = 0
                   => parent_model'.grad[layer][j] = SensUnit
    ]_vars

\* compute_sensitivities has failed on a batch that leaves the first
\* parameter tensor without sensitivity
C15_ZeroTensorFails ==
    /\ pc = "aborted"
    /\ error = "AssertionError: sensitivities"
    /\ unperturbed_out.inputs.kind = 2

\* C16: in every generation the sensitivity map is computed before a seed
\* is drawn or a model perturbed; from then until the results are split the
\* map on the policy is the one of the present parameters and of the input
\* batch that the unperturbed evaluation of the generation before has
\* collected (the evaluation of line 258 for the first generation of the
\* run); and no step between the two changes the map.
C16_SensitivitiesOncePerGeneration ==
    /\ [](pc = "sensitivities" => seeds = <<>> /\ models = <<>> /\ workers = <<>>)
    /\ [](pc \in {"perturb", "dispatch", "dispatch_unperturbed", "while_processes",
                  "split"} =>
             /\ unperturbed_out.inputs.id = n_generation - 1
             /\ parent_model.grad =
                   compute_sensitivities(args, parent_model, unperturbed_out.inputs).grad)
    /\ [][(pc \in {"perturb", "dispatch", "dispatch_unperturbed", "while_processes",
                   "split"}) =>
             (parent_model'.grad = parent_model.grad /\ parent_model'.data = parent_model.data) ]_vars

\* the second generation of a fresh run with safe mutation perturbs with
\* the map of the batch the first generation has collected, the parameters
\* being those the first generation has updated
C16_Witness ==
    /\ pc = "perturb"
    /\ ~resumed.exists
    /\ args.safe_mutation
    /\ n_generation = 1
    /\ unperturbed_out.inputs.id = 0
    /\ Len(models) = 2
    /\ parent_model.data # InitialData(Shape(FALSE))

\* C17: after every completed generation of a fresh run the loop holds a
\* best snapshot, the running maximum is the greatest unperturbed return
\* recorded so far, and the snapshot is the one taken in the latest
\* generation with that return (the optimizer of a fresh run has stepped
\* once per generation, so the steps in the snapshot name its generation);
\* a generation with a lower return leaves the snapshot alone.
C17_BestIsLatestMaximum ==
    /\ [](pc \in {"checkpoint", "for_generation", "done"} /\ ~resumed.exists
             /\ Len(stats.return_unp) > 0 =>
             \E m \in {SeqMax(stats.return_unp)} :
                /\ max_unperturbed_return = m
                /\ ~best_model_stdct.none
                /\ ~best_optimizer_stdct.none
                /\ best_optimizer_stdct.steps \in DOMAIN stats.return_unp
                /\ stats.return_unp[best_optimizer_stdct.steps] = m
                /\ \A i \in DOMAIN stats.return_unp :
                      i > best_optimizer_stdct.steps => stats.return_unp[i] < m)
    /\ [][(pc = "update" /\ ~resumed.exists) =>
             IF unperturbed_out.return >= max_unperturbed_return
             THEN /\ best_model_stdct' = ModelStateDict(parent_model')
                  /\ best_optimizer_stdct' = OptimizerStateDict(optimizer')
             ELSE /\ best_model_stdct' = best_model_stdct
                  /\ best_optimizer_stdct' = best_optimizer_stdct]_vars

\* a fresh run in an environment whose returns all lie below -1e8 has
\* completed a generation and holds no snapshot
C17_NoSnapshotBelowSentinel ==
    /\ pc = "checkpoint"
    /\ ~resumed.exists
    /\ env = Costs
    /\ Len(stats.return_unp) = 1
    /\ best_model_stdct = None
    /\ max_unperturbed_return = MinusInfReturn
    /\ stats.return_unp[1] < MinusInfReturn

\* C18: no step changes an entry of a statistics list or appends more than
\* one; between two generations every list holds the entries of the run
\* resumed from (none in a fresh run) and one entry more for each
\* generation completed since, as many as generations were started and
\* completed in all; and the recorded generation indices start
\* at 0 in a fresh run and go up by exactly 1 from entry to entry, across
\* the resume as well.
C18_StatisticsAppendOnly ==
    /\ [][\A k \in StatKeys :
             /\ Len(stats'[k]) \in {Len(stats[k]), Len(stats[k]) + 1}
             /\ \A i \in DOMAIN stats[k] : stats'[k][i] = stats[k][i]]_vars
    /\ [](pc \in {"checkpoint", "for_generation", "done"} =>
             /\ \A k \in StatKeys :
                   /\ Len(stats[k]) = Len(stats.generations)
                   /\ \A i \in DOMAIN resumed.stats[k] : stats[k][i] = resumed.stats[k][i]
             /\ Len(stats.generations) =
                   IF pc = "checkpoint" THEN n_generation + 1 ELSE n_generation
             /\ \A i \in DOMAIN stats.generations :
                   stats.generations[i] =
                      IF i = 1 THEN 0 ELSE stats.generations[i - 1] + 1)

\* a run resumed after generation 10 has completed generations 11 and 12
C18_Witness ==
    /\ pc = "checkpoint"
    /\ resumed.exists
    /\ Len(resumed.stats.generations) = 11
    /\ stats.generations = [i \in 1..13 |-> i - 1]
    /\ \A k \in StatKeys : Len(stats[k]) = 13

\* the processes that is_alive() reports as running
Live == {w \in DOMAIN workers : Alive(w)}

\* C19: at most N+1 processes are alive at any time; none is alive and the
\* return queue holds nothing when the loop over the generations is at its
\* test, computes the sensitivities, perturbs, aggregates or writes the
\* checkpoint; and every result on the return queue or collected from it
\* was put by a process of the present generation (the unperturbed result
\* carries the input batch of this generation).
C19_WorkersWithinGeneration ==
    /\ Cardinality(Live) <= args.agents + 1
    /\ pc \in {"for_generation", "sensitivities", "perturb", "split", "gradients",
               "update", "checkpoint", "done"} =>
          Live = {} /\ return_queue = <<>>
    /\ \A r \in {return_queue[i] : i \in DOMAIN return_queue}
                \cup {raw_output[i] : i \in DOMAIN raw_output} :
          /\ r.worker \in DOMAIN workers
          /\ workers[r.worker].state \in {"put", "exited"}
          /\ r.out.seed = workers[r.worker].seed
          /\ workers[r.worker].collect_inputs => r.out.inputs.id = n_generation

\* the second generation: all three processes alive at once, one of them
\* with its result on the queue
C19_Witness ==
    /\ n_generation = 1
    /\ pc = "is_alive"
    /\ Cardinality(Live) = args.agents + 1
    /\ Len(return_queue) = 1
    /\ return_queue[1].out.inputs.id = 1

\* the generations completed by this run, the generation it started with
\* and the number of generations range(start_generation, max_generations) holds
Completed == Len(stats.generations) - Len(resumed.stats.generations)

StartedAt == IF resumed.exists THEN start_generation(resumed.stats) ELSE 0

ToRun == IF args.max_generations > StartedAt THEN args.max_generations - StartedAt ELSE 0

\* C20 as stated: when every process delivers, the run ends having run
\* exactly max_generations - start_generation generations (none when that
\* is not positive).
C20_RunsEveryGeneration == <>(pc = "done" /\ Completed = ToRun)

\* C20: when every process delivers, train_loop comes to an end: it has
\* either run exactly max_generations - start_generation generations (none
\* when that is not positive), or an assertion has failed inside a
\* generation and fewer generations are completed; no generation with an
\* index of max_generations or more is run or recorded.
C20_TerminatesWithinMaxGenerations ==
    /\ <>(pc \in {"done", "aborted"})
    /\ [](pc = "done" => Completed = ToRun)
    /\ [](pc = "aborted" => Completed < ToRun)
    /\ [](pc \notin {"evaluate_parent", "for_generation", "done"} =>
             n_generation >= StartedAt /\ n_generation < args.max_generations)
    /\ [](\A i \in DOMAIN stats.generations :
             i > Len(resumed.stats.generations) =>
                stats.generations[i] < args.max_generations)

\* a run resumed after generation 10 with max_generations 13 has run
\* generations 11 and 12 and has ended
C20_Witness ==
    /\ pc = "done"
    /\ resumed.exists
    /\ args.max_generations = 13
    /\ n_generation = 13
    /\ Completed = MaxRun
    /\ stats.generations[Len(stats.generations)] = 12

\* C21: a program started with an odd number of agents ends at the input
\* validation: it builds no perturbed model, draws no seed and starts no
\* process.
C21_OddAgentsRejected ==
    args.agents % 2 # 0 =>
        /\ pc \in {"input_validation", "aborted"}
        /\ pc = "aborted" => error = "AssertionError: agents"
        /\ models = <<>> /\ seeds = <<>>
        /\ workers = <<>> /\ processes = <<>>

\* three agents: the assertion of line 52 has failed
C21_Witness ==
    /\ args.agents = 3
    /\ pc = "aborted"
    /\ error = "AssertionError: agents"

\* C22: after a restore that has failed on a missing or unreadable file
\* the program has ended with the exception, the model and the optimizer
\* are as they were created, and nothing has been trained.
C22_FailedRestoreIsReported ==
    restore.failed =>
        /\ pc = "aborted"
        /\ error = "Exception"
        /\ parent_model.data = InitialData(Shape(FALSE))
        /\ optimizer = [steps |-> 0, lr |-> 10]
        /\ stats = EmptyStats(0)
        /\ workers = <<>>

\* the restore of mnist_main.py has failed on a missing file, and the
\* program has trained a generation from the model as created
C22_TrainedAfterFailedRestore ==
    /\ restore.by = "mnist_main"
    /\ restore.failed
    /\ error = ""
    /\ pc = "checkpoint"
    /\ Len(stats.generations) = 1
    /\ parent_model.data # InitialData(Shape(FALSE))

\* the sign of the perturbation a flag stands for in compute_gradients
\* (line 191)
Multiplier(is_anti) == IF Truthy(is_anti) THEN -1 ELSE 1

\* the model perturb_model builds from a seed with the given sign
BuiltWith(seed, sign) ==
    perturb_model(args, parent_model, seed).models[IF sign < 0 THEN 2 ELSE 1]

\* C23: every process of a perturbed evaluation holds the model built from
\* the seed it was handed, as parent - sigma*eps when its is_negative is
\* true and as parent + sigma*eps when it is false (the two differ); and
\* when the gradients are computed, entry i of the seeds, the flags and the
\* returns is the seed, the flag and the return of one and the same
\* process, so that the multiplier of result i is the sign of the
\* perturbation its return was obtained with.
C23_FlagIsSignOfPerturbation ==
    /\ pc \in {"dispatch", "dispatch_unperturbed", "while_processes", "split",
               "gradients"} =>
          \A w \in Perturbed :
             /\ workers[w].is_negative \in {"True", "False"}
             /\ workers[w].model =
                   BuiltWith(workers[w].seed, Multiplier(workers[w].is_negative))
             /\ workers[w].model #
                   BuiltWith(workers[w].seed, - Multiplier(workers[w].is_negative))
    /\ pc = "gradients" =>
          /\ Len(returns) = Len(raw_output)
          /\ Len(seeds) = Len(raw_output)
          /\ Len(is_anti_list) = Len(raw_output)
          /\ \A i \in DOMAIN raw_output :
                /\ raw_output[i].worker \in Perturbed
                /\ seeds[i] = workers[raw_output[i].worker].seed
                /\ is_anti_list[i] = workers[raw_output[i].worker].is_negative
                /\ returns[i] = raw_output[i].out.return

\* four perturbed evaluations of two different seeds have delivered, the
\* first result being one of a negative perturbation
C23_Witness ==
    /\ pc = "gradients"
    /\ args.agents = 4
    /\ Len(returns) = 4
    /\ {seeds[i] : i \in DOMAIN seeds} = {0, 1}
    /\ is_anti_list[1] = "True"
    /\ Cardinality({i \in DOMAIN is_anti_list : is_anti_list[i] = "True"}) = 2

\* the orders the results of n processes may arrive in, and a list put
\* into one of them
Orders(n) == {f \in [1..n -> 1..n] : \A i, j \in 1..n : f[i] = f[j] => i = j}

InOrder(list, f) == [i \in DOMAIN list |-> list[f[i]]]

\* C24: the gradient stored by compute_gradients is the one it stores for
\* the same results in any other order of arrival, and so are the mean,
\* the variance, the maximum and the minimum of the returns and the rank of
\* the unperturbed return that are appended to the statistics.
C24_IndependentOfArrivalOrder ==
    pc = "update" =>
        \A f \in Orders(Len(returns)) :
           /\ compute_gradients(args, parent_model, InOrder(returns, f),
                                InOrder(seeds, f), InOrder(is_anti_list, f)).grad
                 = parent_model.grad
           /\ Mean1000(InOrder(returns, f)) = Mean1000(returns)
           /\ Var1000(InOrder(returns, f)) = Var1000(returns)
           /\ SeqMax(InOrder(returns, f)) = SeqMax(returns)
           /\ SeqMin(InOrder(returns, f)) = SeqMin(returns)
           /\ unperturbed_rank(InOrder(returns, f), unperturbed_out.return)
                 = unperturbed_rank(returns, unperturbed_out.return)

\* the two evaluations of one seed have reported the same return, the
\* negative one first: the gradient stored is the opposite of the one
\* stored when the positive one arrives first
C24_TieBrokenByArrival ==
    /\ pc = "update"
    /\ args.agents = 2
    /\ returns = <<1, 1>>
    /\ is_anti_list = <<"True", "False">>
    /\ parent_model.grad # NoGrad(Shape(FALSE))
    /\ \A layer \in DOMAIN parent_model.grad : \A j \in DOMAIN parent_model.grad[layer] :
          compute_gradients(args, parent_model, returns, seeds,
                            <<"False", "True">>).grad[layer][j]
             = - parent_model.grad[layer][j]

\* the processes of the unperturbed evaluation of the generation
Unperturbed == {w \in DOMAIN workers : workers[w].seed = DummySeed}

\* C25: when a generation's unperturbed return is at least the running
\* maximum, the snapshot taken holds the parameters the policy had when it
\* was evaluated unperturbed in that generation, and the optimizer state of
\* before that generation's step.
C25_SnapshotOfEvaluatedParameters ==
    [][(pc = "update" /\ unperturbed_out.return >= max_unperturbed_return) =>
          /\ ~best_model_stdct'.none
          /\ \A w \in Unperturbed : best_model_stdct'.data = workers[w].model.data
          /\ best_model_stdct'.data = parent_model.data
          /\ best_optimizer_stdct'.steps = optimizer.steps]_vars

\* a snapshot taken in a generation whose step has moved the parameters:
\* it holds the parameters after the step, which no evaluation has seen
C25_SnapshotAfterStep ==
    /\ pc = "checkpoint"
    /\ ~best_model_stdct.none
    /\ unperturbed_out.return = max_unperturbed_return
    /\ best_optimizer_stdct.steps = optimizer.steps
    /\ best_model_stdct.data = parent_model.data
    /\ Unperturbed # {}
    /\ \A w \in Unperturbed : workers[w].model.data # best_model_stdct.data

\* C26: a checkpoint written at the end of a generation holds, as the best
\* model and the best optimizer state, the snapshot as it was when it was
\* taken, whatever the steps of the optimizer since.
C26_BestSnapshotKept ==
    (disk.exists /\ disk.stats = stats /\ ~best_model_stdct.none) =>
        /\ disk.best_model = [none |-> FALSE, data |-> best_model_stdct.data]
        /\ disk.best_optimizer.steps = best_optimizer_stdct.steps

\* the snapshot was taken in the first generation, the second one had a
\* lower unperturbed return, and the checkpoint written after it holds the
\* present parameters as the best model
C26_BestFollowsThePolicy ==
    /\ disk.exists
    /\ ~resumed.exists
    /\ disk.stats = stats
    /\ stats.return_unp = <<1, 0>>
    /\ best_optimizer_stdct.steps = 1
    /\ disk.best_model.data = parent_model.data
    /\ disk.best_model.data # best_model_stdct.data
    /\ disk.best_optimizer.steps = 2

\* C27: with sigma adapted, beta is log(2*sigma^2) of args.sigma (beta is
\* held as the sigma it stands for) from the start of a generation to its
\* gradients, and after the update of a generation beta stands for the
\* sigma that was recorded in the statistics.
C27_BetaFollowsSigma ==
    args.optimize_sigma =>
        /\ pc \in {"sensitivities", "perturb", "dispatch", "dispatch_unperturbed",
                   "while_processes", "split", "gradients"} =>
              args.beta = args.sigma
        /\ pc = "checkpoint" =>
              /\ args.beta = args.sigma
              /\ args.sigma = Last(stats.sigma)

\* the first generation after a resume perturbs with the restored sigma
\* 0.07 while beta stands for the sigma 0.05 of the command line
C27_BetaOfCommandLineAfterResume ==
    /\ args.optimize_sigma
    /\ resumed.exists
    /\ pc = "dispatch"
    /\ n_generation = start_generation(resumed.stats)
    /\ args.sigma = 7 * 10000
    /\ args.beta = 5 * 10000
    /\ Len(models) = args.agents

\* the episode counter recorded last before this run, 0 in a fresh run
EpisodesBefore == IF resumed.exists THEN Last(resumed.stats.episodes) ELSE 0

\* C28: the update of a generation adds N to the episode counter and the
\* observation counts of the N perturbed results to the observation
\* counter, and records both; the counters start at 0 in a fresh run and
\* at the last recorded values in a resumed one, so that the k-th entry a
\* run appends to the recorded episodes is N*k more than what was recorded
\* before it.
C28_CountersGrowByGeneration ==
    /\ [][pc = "update" =>
            /\ n_episodes' = n_episodes + args.agents
            /\ n_observations' = n_observations
                  + SeqSum([i \in DOMAIN raw_output |-> raw_output[i].out.n_observations])
            /\ \A i \in DOMAIN raw_output : raw_output[i].worker \in Perturbed
            /\ Len(raw_output) = args.agents
            /\ Last(stats'.episodes) = n_episodes'
            /\ Last(stats'.observations) = n_observations']_vars
    /\ [](pc \in {"evaluate_parent", "for_generation", "checkpoint", "done"} =>
            /\ n_episodes = EpisodesBefore
                  + args.agents * (Len(stats.episodes) - Len(resumed.stats.episodes))
            /\ \A i \in DOMAIN stats.episodes :
                  i > Len(resumed.stats.episodes) =>
                     stats.episodes[i] = EpisodesBefore
                        + args.agents * (i - Len(resumed.stats.episodes))
            /\ n_observations =
                  IF stats.observations = <<>> THEN 0 ELSE Last(stats.observations))

\* two generations of a fresh run with two agents: episodes of 1 and 2
\* steps, then two of 2 steps; the unperturbed episode of 2 steps is not
\* counted
C28_Witness ==
    /\ pc = "checkpoint"
    /\ ~resumed.exists
    /\ args.agents = 2
    /\ stats.episodes = <<2, 4>>
    /\ stats.observations = <<3, 7>>
    /\ unperturbed_out.n_observations = 2

\* C29: the files of the checkpoint are written at the end of a generation
\* when more than checkpoint_interval has elapsed since the last write (since
\* the start of the loop when nothing was written yet), and then hold the
\* present model, optimizer and statistics; they are written at no other
\* step, and not when the loop ends.
C29_CheckpointOnlyAfterInterval ==
    /\ [][((disk' # disk \/ last_checkpoint_time' # last_checkpoint_time)
              <=> (pc = "checkpoint" /\ now - last_checkpoint_time > CheckpointInterval))
          /\ ((disk' # disk) =>
                 (/\ disk' = save_checkpoint(parent_model, optimizer, best_model_stdct,
                                             best_optimizer_stdct, stats)
                  /\ last_checkpoint_time' = now))
          /\ ((pc' = "done") => (disk' = disk))]_vars
    /\ [](last_checkpoint_time = 0 => disk = resumed)

\* a fresh run of two generations has ended: nothing was written at the end
\* of the first generation, when checkpoint_interval had elapsed and no
\* more, and the files were written at the end of the second
C29_Witness ==
    /\ pc = "done"
    /\ ~resumed.exists
    /\ Len(stats.generations) = 2
    /\ stats.walltimes[1] = CheckpointInterval
    /\ gen_disk = NoCheckpoint
    /\ disk.exists
    /\ disk.stats = stats
    /\ last_checkpoint_time = now

\* the noise perturb_model draws from a seed when nothing scales it
Unscaled(seed) ==
    perturb_model([args EXCEPT !.safe_mutation = FALSE], parent_model, seed).models[1].eps

\* the policy as it is built: every param.grad is zero
NoMap(model) == \A layer \in DOMAIN model.grad : \A j \in DOMAIN model.grad[layer] :
                   model.grad[layer][j] = 0

\* C30 as stated: in the first generation of a run the policy carries no
\* sensitivity map and every perturbation is the noise as drawn, without
\* sensitivity scaling; from the second generation on the map is the one of
\* the input batch the generation before has collected.
C30_FirstGenerationUnscaled ==
    pc \in {"perturb", "dispatch", "dispatch_unperturbed", "while_processes", "split"} =>
         (IF n_generation = StartedAt
          THEN /\ NoMap(parent_model)
               /\ \A i \in DOMAIN models : models[i].eps = Unscaled(seeds[i])
          ELSE /\ unperturbed_out.inputs.id = n_generation - 1
               /\ parent_model.grad =
                     compute_sensitivities(args, parent_model, unperturbed_out.inputs).grad)

\* the first generation of a fresh run with safe mutation: the map on the
\* policy is the one of the batch the evaluation before the loop has
\* collected, and the two models of the first pair are built from noise
\* that the map has scaled
C30_FirstGenerationScaled ==
    /\ pc = "dispatch"
    /\ ~resumed.exists
    /\ n_generation = 0
    /\ args.safe_mutation
    /\ unperturbed_out.inputs.id = -1
    /\ parent_model.grad =
          compute_sensitivities(args, parent_model, unperturbed_out.inputs).grad
    /\ ~NoMap(parent_model)
    /\ Len(models) >= 2
    /\ models[1].eps # Unscaled(seeds[1])
    /\ models[1] = perturb_model(args, parent_model, seeds[1]).models[1]

====
